---- MODULE Spec2Model ----
(***************************************************************************)
(* Request execution engine of the rquest HTTP client: the shared,         *)
(* atomically replaceable client state (ClientRef behind an ArcSwap), the  *)
(* hot reconfiguration builder (ClientUpdate), and the per-request state   *)
(* machine PendingRequest (redirects, HTTP/2 retries, cookies).            *)
(***************************************************************************)
EXTENDS Integers, Sequences, FiniteSets, TLC

VARIABLES
    scenario,   \* which family of inputs this run draws from (fixed by Init)
    cell,       \* ArcSwap<ClientRef>: cell id -> the published ClientRef
    handle,     \* Client values: handle id -> [cell, group] or None
    upd,        \* ClientUpdate builders: update id -> record
    req,        \* Pending futures: request id -> record
    store,      \* cookie stores: store id -> [host -> set of cookie names]
    pool,       \* connection pools: pool id -> set of idle connections
    published,  \* history: cell id -> the state the last store() published
    captured,   \* history: request id -> the state loaded by execute_request
    used,       \* history: request id -> states read by the steps of the request
    hop,        \* history: request id -> what the last followed redirect did
    layer,      \* requests driven through the retry middleware: id -> record
    svc         \* the component around the engine that the scenario is about

vars == <<scenario, cell, handle, upd, req, store, pool, published, captured, used, hop,
          layer, svc>>

None == "none"

(***************************************************************************)
(* Bounds of the model.                                                    *)
(***************************************************************************)
MaxHandles == 2      \* Client values alive in the clone scenario
MaxUpdates == 1      \* ClientUpdate builders begun in the clone scenario
MaxSwapOps == 3      \* requests and ClientUpdate builders begun in the hot-swap scenario
MaxRedirects == 2    \* limit of the redirect policy of the modelled clients
DefaultMaxHops == 10 \* hops the documented default redirect policy follows
MaxLayerCalls == 4   \* calls of the inner service per request of the retry middleware
MaxTime == 2         \* the total timeout of the timeout scenario, in ticks
MaxRetries == 1      \* http2_max_retry_count of the modelled clients
MaxDecoderCalls == 2 \* requests sent through the decompression middleware
MaxBytes == 2        \* bytes each side writes to an upgraded connection
MaxBuilderCalls == 3 \* proxy() and no_proxy() calls on one ClientBuilder
MaxConnects == 2     \* connections asked of one connector
MaxEmulationSwaps == 2 \* updates of one client that swap its emulation
MaxHandshakes == 2   \* TLS handshakes recorded of one client
MaxTlsConns == 3     \* connections set up by one HttpsLayer
MaxSessions == 3     \* sessions the server hands to those connections
MaxTlsSwaps == 2     \* TLS connectors set on one connector

(***************************************************************************)
(* URLs.  url::Url is modelled by the parts the engine looks at.           *)
(***************************************************************************)
Url(s, h, p, pa) ==
    [scheme |-> s, host |-> h, port |-> p, path |-> pa, user |-> "", fragment |-> ""]

UrlA1 == Url("https", "a", 443, "/1")
UrlA2 == Url("https", "a", 443, "/2")
UrlB1 == Url("https", "b", 443, "/1")
UrlHttpA1 == Url("http", "a", 80, "/1")
UrlAltA1 == Url("https", "a", 8443, "/1")
UrlFtpA1 == Url("ftp", "a", 21, "/1")

Hosts == {"a", "b"}

\* Location header values: absent, an absolute URL, or a path reference.
AbsLoc(u) == [kind |-> "abs", url |-> u, path |-> u.path]
RelLoc(pa) == [kind |-> "rel", url |-> UrlA1, path |-> pa]
NoLoc == [kind |-> "absent", url |-> UrlA1, path |-> "/1"]

\* Url::join of the current URL with a Location value.
JoinFirstUrl(base, loc) ==
    IF loc.kind = "abs" THEN loc.url ELSE [UrlA1 EXCEPT !.path = loc.path, !.fragment = ""]
Join(base, loc) ==
    IF loc.kind = "abs" THEN loc.url ELSE [base EXCEPT !.path = loc.path, !.fragment = ""]

(***************************************************************************)
(* http::HeaderMap: header name -> the sequence of its values.             *)
(***************************************************************************)
HeaderNames ==
    {"authorization", "cookie", "proxy-authorization", "www-authenticate",
     "content-type", "content-length", "content-encoding", "transfer-encoding",
     "referer", "user-agent", "x-custom", "accept-encoding", "range",
     "connection", "upgrade"}

EmptyHeaders == [n \in HeaderNames |-> <<>>]

ContainsKey(h, n) == h[n] # <<>>
HeaderAppend(h, n, v) == [h EXCEPT ![n] = Append(@, v)]
HeaderInsert(h, n, v) == [h EXCEPT ![n] = <<v>>]
HeaderRemove(h, n) == [h EXCEPT ![n] = <<>>]

RECURSIVE RemoveAll(_, _)
RemoveAll(h, names) ==
    IF names = {} THEN h
    ELSE LET n == CHOOSE x \in names : TRUE
         IN RemoveAll(HeaderRemove(h, n), names \ {n})

RECURSIVE AppendAll(_, _, _)
AppendAll(h, n, vs) ==
    IF vs = <<>> THEN h
    ELSE AppendAll(HeaderAppend(h, n, Head(vs)), n, Tail(vs))

Range(s) == {s[i] : i \in DOMAIN s}

(***************************************************************************)
(* Cookie store (cookie::CookieStore): cookies kept per host.              *)
(***************************************************************************)
CookieOrder == <<"c1", "c2">>
CookieNames == Range(CookieOrder)
StoreIds == {"jar", "jar2"}
EmptyJar == [h \in Hosts |-> {}]

\* CookieStore::cookies(url): the Cookie header values for url, or none.
StoreCookies(jar, url) == SelectSeq(CookieOrder, LAMBDA c : c \in jar[url.host])

\* CookieStore::set_cookies(iter, url)
StoreSetCookies(jar, setCookie, url) ==
    [jar EXCEPT ![url.host] = @ \cup Range(setCookie)]

\* add_cookie_header: append every value the store returns for url.
add_cookie_header(jar, headers, url) ==
    AppendAll(headers, "cookie", StoreCookies(jar, url))

(***************************************************************************)
(* Emulation profiles (EmulationProvider): plain data.                     *)
(***************************************************************************)
Some(x) == [some |-> TRUE, v |-> x]
NoHeaders == [some |-> FALSE, v |-> EmptyHeaders]

TlsConfig(id, alpn) ==
    [id |-> id, alpn_protos |-> alpn, min_tls_version |-> None, max_tls_version |-> None]
NoTls == [some |-> FALSE, v |-> TlsConfig("default", "h2,http/1.1")]

ProfileHeaders(ua) == HeaderInsert(EmptyHeaders, "user-agent", ua)

ProfileA ==
    [default_headers |-> Some(ProfileHeaders("ua-A")), headers_order |-> "order-A",
     http1_config |-> "h1-A", http2_config |-> "h2-A",
     tls_config |-> Some(TlsConfig("A", "h2,http/1.1"))]
ProfileB ==
    [default_headers |-> Some(ProfileHeaders("ua-B")), headers_order |-> "order-B",
     http1_config |-> "h1-B", http2_config |-> "h2-B",
     tls_config |-> Some(TlsConfig("B", "h2,http/1.1"))]
\* A profile that offers HTTP/1.1 only.
ProfileC ==
    [default_headers |-> Some(ProfileHeaders("ua-C")), headers_order |-> "order-C",
     http1_config |-> "h1-C", http2_config |-> "h2-C",
     tls_config |-> Some(TlsConfig("C", "http/1.1"))]
\* Profile A with an Accept-Encoding among its default headers.
ProfileEncoding ==
    [ProfileA EXCEPT !.default_headers =
        Some(HeaderInsert(ProfileHeaders("ua-A"), "accept-encoding", "profile"))]
\* Profile A with a Connection among its default headers.
ProfileConnection ==
    [ProfileA EXCEPT !.default_headers =
        Some(HeaderInsert(ProfileHeaders("ua-A"), "connection", "keep-alive"))]
\* Profile A with a Cookie among its default headers.
ProfileCookie ==
    [ProfileA EXCEPT !.default_headers =
        Some(HeaderInsert(ProfileHeaders("ua-A"), "cookie", "d"))]
\* A profile whose TLS configuration bounds the protocol version (OkHttp).
ProfileOkHttp ==
    [default_headers |-> Some(ProfileHeaders("ua-K")), headers_order |-> "order-K",
     http1_config |-> "h1-K", http2_config |-> "h2-K",
     tls_config |-> Some([TlsConfig("K", "h2,http/1.1") EXCEPT
                            !.min_tls_version = "1.2", !.max_tls_version = "1.3"])]
\* A profile that brings default headers and nothing else.
ProfileHeadersOnly ==
    [default_headers |-> Some(ProfileHeaders("ua-H")), headers_order |-> None,
     http1_config |-> None, http2_config |-> None,
     tls_config |-> [some |-> FALSE, v |-> TlsConfig("default", "h2,http/1.1")]]
NoProfile ==
    [default_headers |-> NoHeaders, headers_order |-> None,
     http1_config |-> None, http2_config |-> None, tls_config |-> NoTls]

(***************************************************************************)
(* Proxies (Proxy): which destination schemes a proxy intercepts and       *)
(* whether it carries HTTP basic auth.                                     *)
(***************************************************************************)
Proxy(id, scope, auth) == [id |-> id, scope |-> scope, auth |-> auth]
ProxyHttpAuth == Proxy("px-http", "http", TRUE)
ProxyAll == Proxy("px-all", "all", FALSE)
ProxyHttpsAuth == Proxy("px-https-auth", "https", TRUE)
ProxyAllAuth == Proxy("px-all-auth", "all", TRUE)

ProxyIsMatch(proxy, uri) == proxy.scope = "all" \/ proxy.scope = uri.scheme
\* Proxy::intercept(uri): the proxy scheme to dial through, or none.
ProxyIntercept(proxy, uri) == IF ProxyIsMatch(proxy, uri) THEN proxy.id ELSE None
ProxyMaybeHasHttpAuth(proxy) == proxy.auth /\ proxy.scope \in {"all", "http"}

RECURSIVE AnyProxy(_, _)
AnyProxy(proxies, i) ==
    IF i > Len(proxies) THEN FALSE
    ELSE ProxyMaybeHasHttpAuth(proxies[i]) \/ AnyProxy(proxies, i + 1)

(***************************************************************************)
(* Redirect policy (redirect::Policy).                                     *)
(***************************************************************************)
PolicyLimited(n) == [kind |-> "limited", max |-> n]
PolicyNone == [kind |-> "none", max |-> 0]
\* redirect_policy of ClientBuilder::new
DefaultRedirectPolicy == PolicyNone
PolicyUnset == [kind |-> "unset", max |-> 0]

\* Policy::check(status, method, next, previous_method, previous urls)
PolicyCheck(policy, urls) ==
    CASE policy.kind = "none" -> "Stop"
      [] policy.kind = "limited" /\ Len(urls) > policy.max -> "Error"
      [] OTHER -> "Follow"

\* Origin of a URL: scheme, host and port.
Origin(u) == <<u.scheme, u.host, u.port>>

SensitiveHeaders ==
    {"authorization", "cookie", "proxy-authorization", "www-authenticate"}

\* Policy::remove_sensitive_headers(headers, next, previous)
remove_sensitive_headers(headers, next, previous) ==
    IF previous # <<>> /\ Origin(next) # Origin(previous[Len(previous)])
    THEN RemoveAll(headers, SensitiveHeaders)
    ELSE headers

(***************************************************************************)
(* ClientRef: the client state published in the ArcSwap cell.              *)
(***************************************************************************)
\* A timeout that is not set (Option::None); set ones count ticks.
NoTimeout == -1

\* Accepts: the response decoders a client has enabled.
Accepts(gzip, brotli, zstd, deflate) ==
    [gzip |-> gzip, brotli |-> brotli, zstd |-> zstd, deflate |-> deflate]
\* Accepts::default with every decoder feature compiled in.
AcceptsDefault == Accepts(TRUE, TRUE, TRUE, TRUE)
AcceptsNone == Accepts(FALSE, FALSE, FALSE, FALSE)

\* Accepts::as_str: the Accept-Encoding value for the enabled decoders, or
\* none when no decoder is enabled.
AcceptsStr(accepts) ==
    LET Part(on, name, rest) ==
            IF ~on THEN rest ELSE IF rest = "" THEN name ELSE name \o ", " \o rest
        joined == Part(accepts.gzip, "gzip",
                    Part(accepts.brotli, "br",
                      Part(accepts.zstd, "zstd",
                        Part(accepts.deflate, "deflate", ""))))
    IN IF joined = "" THEN None ELSE joined

\* ClientBuilder::build with the given options.
Built(poolId, profile, cookieStore, policy, referer, httpsOnly, proxies) ==
    [headers |-> profile.default_headers.v,
     headers_order |-> profile.headers_order,
     cookie_store |-> cookieStore,
     accepts |-> AcceptsDefault,
     redirect |-> policy,
     referer |-> referer,
     https_only |-> httpsOnly,
     http2_max_retry_count |-> MaxRetries,
     total_timeout |-> NoTimeout,
     read_timeout |-> NoTimeout,
     proxies |-> proxies,
     proxies_maybe_http_auth |-> AnyProxy(proxies, 1),
     network_scheme |-> None,
     alpn_protos |-> None,
     min_tls_version |-> None,
     max_tls_version |-> None,
     hyper |-> [pool |-> poolId,
                http1 |-> profile.http1_config,
                http2 |-> profile.http2_config,
                tls |-> profile.tls_config.v]]

\* AlpnProtos::HTTP1, HTTP2 and ALL
Http1 == "http/1.1"
Http2 == "h2"
All == "h2,http/1.1"

\* ClientBuilder::http1_only / http2_only, min_tls_version and
\* max_tls_version, as build applies them: the options of the client go
\* over the TLS configuration of the profile.
WithTlsOptions(client, alpn, min, max) ==
    [client EXCEPT
       !.alpn_protos = alpn, !.min_tls_version = min, !.max_tls_version = max,
       !.hyper.tls = [@ EXCEPT
          !.alpn_protos = IF alpn # None THEN alpn ELSE @,
          !.min_tls_version = IF min # None THEN min ELSE @,
          !.max_tls_version = IF max # None THEN max ELSE @]]

\* TlsExtension::configure_alpn_protos: the protocol list set on the
\* connector, each entry with the length byte that precedes it.
configure_alpn_protos(http_version) ==
    CASE http_version = Http1 -> <<[len |-> 8, proto |-> "http/1.1"]>>
      [] http_version = Http2 -> <<[len |-> 2, proto |-> "h2"]>>
      [] OTHER -> <<[len |-> 2, proto |-> "h2"], [len |-> 8, proto |-> "http/1.1"]>>

\* The protocol names of a length-prefixed list, in order; an entry whose
\* length byte is wrong cannot be read.
AlpnNames(wire) ==
    [i \in DOMAIN wire |-> IF wire[i].len = Len(wire[i].proto) THEN wire[i].proto ELSE None]

\* ClientBuilder::gzip, brotli, zstd and deflate
WithAccepts(client, accepts) == [client EXCEPT !.accepts = accepts]

\* ClientBuilder::timeout and ClientBuilder::read_timeout
WithTimeouts(client, total, read) ==
    [client EXCEPT !.total_timeout = total, !.read_timeout = read]

\* RequestConfig::fetch: the request's own value if it has one.
fetch(default, own) == IF own # NoTimeout THEN own ELSE default

\* The per-request configuration a request carries in its extensions.
NoExtensions == [timeout |-> NoTimeout, read_timeout |-> NoTimeout]

\* execute_request: the total and the read timeout armed for a request.
total_timeoutClientOnly(client, extensions) == client.total_timeout
total_timeout(client, extensions) == fetch(client.total_timeout, extensions.timeout)
read_timeout(client, extensions) == fetch(client.read_timeout, extensions.read_timeout)

\* TotalTimeout::call of the timeout middleware: the duration it sleeps for.
TotalTimeoutSleep(timeout, extensions) ==
    IF extensions.timeout # NoTimeout THEN extensions.timeout ELSE timeout

\* ResponseBodyTimeout::call: the total and read timeouts of the body.
ResponseBodyTimeouts(total, read, extensions) ==
    [total_timeout |-> IF extensions.timeout # NoTimeout THEN extensions.timeout ELSE total,
     read_timeout |-> IF extensions.read_timeout # NoTimeout
                      THEN extensions.read_timeout ELSE read]

\* ClientRef::proxy_auth(dst, headers)
RECURSIVE FirstMatch(_, _, _)
FirstMatch(proxies, uri, i) ==
    IF i > Len(proxies) THEN 0
    ELSE IF ProxyIsMatch(proxies[i], uri) THEN i
    ELSE FirstMatch(proxies, uri, i + 1)

\* Proxy::http_basic_auth(dst): the credentials of the proxy, named after
\* it, or none.
http_basic_auth(proxy, dst) == IF proxy.auth THEN proxy.id ELSE None

proxy_authAnyScheme(client, dst, headers) ==
    IF ~client.proxies_maybe_http_auth THEN headers
    ELSE IF ContainsKey(headers, "proxy-authorization") THEN headers
    ELSE LET i == FirstMatch(client.proxies, dst, 1)
         IN IF i = 0 THEN headers
            ELSE IF http_basic_auth(client.proxies[i], dst) # None
                 THEN HeaderInsert(headers, "proxy-authorization",
                                   http_basic_auth(client.proxies[i], dst))
                 ELSE headers
proxy_auth(client, dst, headers) ==
    IF ~client.proxies_maybe_http_auth THEN headers
    ELSE IF dst.scheme # "http" THEN headers
    ELSE IF ContainsKey(headers, "proxy-authorization") THEN headers
    ELSE LET i == FirstMatch(client.proxies, dst, 1)
         IN IF i = 0 THEN headers
            ELSE IF http_basic_auth(client.proxies[i], dst) # None
                 THEN HeaderInsert(headers, "proxy-authorization",
                                   http_basic_auth(client.proxies[i], dst))
                 ELSE headers

\* ClientRef::network_scheme(uri, default): every intercepting proxy of the
\* list overwrites the builder's proxy scheme; there is no break.
RECURSIVE LastIntercept(_, _, _, _)
LastIntercept(proxies, uri, i, acc) ==
    IF i > Len(proxies) THEN acc
    ELSE LET ps == ProxyIntercept(proxies[i], uri)
         IN LastIntercept(proxies, uri, i + 1, IF ps # None THEN ps ELSE acc)

network_scheme(client, uri, default) ==
    IF default = None
    THEN LastIntercept(client.proxies, uri, 1, client.network_scheme)
    ELSE default

(***************************************************************************)
(* Connection pool of the HTTP client: idle connections by key.            *)
(***************************************************************************)
AlpnClass(tls) == tls.alpn_protos

PoolKey(uri, net, hyper) ==
    [scheme |-> uri.scheme, host |-> uri.host, port |-> uri.port,
     net |-> net, alpn |-> AlpnClass(hyper.tls)]

\* A connection dialled by the connector of this HTTP client.
NewConn(key, hyper) == [key |-> key, tls |-> hyper.tls.id, http2 |-> hyper.http2]

\* acquire(key): an idle connection of the key, or a new dial.
Acquire(idle, key, hyper) ==
    {c \in idle : c.key = key} \cup {NewConn(key, hyper)}

NoConn == NewConn(PoolKey(UrlA1, None, [tls |-> NoTls.v]), [tls |-> NoTls.v, http2 |-> None])

Checkout(pl, hyper, conn) == [pl EXCEPT ![hyper.pool] = @ \ {conn}]
Release(pl, hyper, conn) == [pl EXCEPT ![hyper.pool] = @ \cup {conn}]

(***************************************************************************)
(* Requests.                                                               *)
(***************************************************************************)
Methods == {"GET", "HEAD", "POST"}

\* try_uri(url): whether the URL is also a valid http::Uri.
try_uri(url) == url.host # ""

DefaultPort(scheme) == IF scheme = "https" THEN 443 ELSE 80

\* Url::as_str
UrlStr(u) ==
    u.scheme \o "://" \o (IF u.user # "" THEN u.user \o "@" ELSE "") \o u.host
    \o (IF u.port # DefaultPort(u.scheme) THEN ":" \o ToString(u.port) ELSE "")
    \o u.path \o (IF u.fragment # "" THEN "#" \o u.fragment ELSE "")

\* make_referer(next, previous): the Referer value, or none.
make_referer(next, previous) ==
    IF next.scheme = "http" /\ previous.scheme = "https" THEN None
    ELSE UrlStr([previous EXCEPT !.user = "", !.fragment = ""])

\* Body::try_reuse: the reusable snapshot kept in PendingRequest.body.
\*   "none"   - the request has no body          (None)
\*   "stream" - a one-shot body, not reusable    (Some(None))
\*   bytes    - in-memory bytes                  (Some(Some(bytes)))
Bodies == {None, "stream", "b1"}

\* The body sent with a redirected or retried request.
ResendBodyEmpty(body) == "empty"
ResendBody(body) == IF body \in {None, "stream"} THEN "empty" ELSE body
\* The body sent with the first request.
FirstBody(body) == IF body = None THEN "empty" ELSE body

\* The exchange in flight: the InnerRequest handed to the HTTP client, the
\* HTTP client it was handed to, and the connection that carries it.
InnerRequest(uri, method, headers, order, body, net, hyper, conn) ==
    [uri |-> uri, method |-> method, headers |-> headers, headers_order |-> order,
     body |-> body, network_scheme |-> net, hyper |-> hyper, conn |-> conn]

Pending(kind, err, status, url, target) ==
    [kind |-> kind, err |-> err, status |-> status, url |-> url, target |-> target]
\* No usable Location came with the response.
NoTarget == Url("", "", 0, "")
\* Error::url() of an error that carries no URL.
NoUrl == Url("", "", 0, "")

\* error::builder(err) is made without a URL; error::url_bad_scheme(url) and
\* error::url_bad_uri(url) are made from the URL.
ErrorUrl(err, url) == IF err = "builder" THEN NoUrl ELSE url
StillPending == Pending("pending", None, 0, UrlA1, NoTarget)

NoClient == Built("p0", NoProfile, None, PolicyNone, FALSE, FALSE, <<>>)

NoInner ==
    InnerRequest(UrlA1, "GET", EmptyHeaders, None, "empty", None, NoClient.hyper, NoConn)

NoHop ==
    [n |-> 0, status |-> 0, prev |-> NoInner, prevUrl |-> UrlA1, location |-> NoLoc,
     storeAns |-> <<>>,
     storeAsked |-> FALSE, swapped |-> FALSE]

\* History of a request: the last answer its exchanges got, and how many.
Received(n, kind, setCookie) == [n |-> n, kind |-> kind, set_cookie |-> setCookie]
NoReceived == Received(0, None, <<>>)

\* Pending::new_err
ErrRequest(h, cellId, input, err) ==
    [st |-> "done", by |-> h, via |-> cellId, method |-> input.method, url |-> input.url,
     headers |-> input.headers, headers_order |-> None, body |-> None,
     extensions |-> input.extensions, given |-> input, received |-> NoReceived,
     urls |-> <<>>, http2_retry_count |-> 0, http2_max_retry_count |-> 0,
     retried |-> {}, total_timeout |-> NoTimeout, read_timeout_fut |-> NoTimeout,
     read_timeout |-> NoTimeout, armed |-> NoTimeout, elapsed |-> 0, dispatched_at |-> 0,
     response_deadline |-> NoTimeout,
     redirect |-> input.redirect, network_scheme |-> None, client |-> NoClient,
     in_flight |-> NoInner, sent |-> 0,
     result |-> Pending("err", err, 0, ErrorUrl(err, input.url), NoTarget)]

\* Merge of the client's default headers into the request headers: a name
\* the request already has is left alone.
MergeDefaultsOverwrite(headers, defaults) ==
    [n \in HeaderNames |-> IF ContainsKey(defaults, n) THEN defaults[n] ELSE headers[n]]
MergeDefaults(headers, defaults) ==
    [n \in HeaderNames |-> IF ContainsKey(headers, n) THEN headers[n] ELSE defaults[n]]

\* add_accpet_encoding_header
add_accpet_encoding_headerWithRange(accepts, headers) ==
    IF AcceptsStr(accepts) # None /\ ~ContainsKey(headers, "accept-encoding")
    THEN HeaderInsert(headers, "accept-encoding", AcceptsStr(accepts))
    ELSE headers
add_accpet_encoding_header(accepts, headers) ==
    IF AcceptsStr(accepts) # None
       /\ ~ContainsKey(headers, "accept-encoding") /\ ~ContainsKey(headers, "range")
    THEN HeaderInsert(headers, "accept-encoding", AcceptsStr(accepts))
    ELSE headers

\* Headers of the first request, as execute_request assembles them.
FirstHeadersAlwaysStore(client, jars, input) ==
    LET h1 == MergeDefaults(input.headers, client.headers)
        h2 == IF client.cookie_store # None
              THEN add_cookie_header(jars[client.cookie_store], h1, input.url)
              ELSE h1
        h3 == IF input.allow_compression
              THEN add_accpet_encoding_header(client.accepts, h2) ELSE h2
    IN proxy_auth(client, input.url, h3)
FirstHeaders(client, jars, input) ==
    LET h1 == MergeDefaults(input.headers, client.headers)
        h2 == IF client.cookie_store # None /\ ~ContainsKey(h1, "cookie")
              THEN add_cookie_header(jars[client.cookie_store], h1, input.url)
              ELSE h1
        h3 == IF input.allow_compression
              THEN add_accpet_encoding_header(client.accepts, h2) ELSE h2
    IN proxy_auth(client, input.url, h3)

\* The https_only check of execute_request and of a followed redirect.
HttpsOnlyIgnored(client, url) == FALSE
HttpsOnlyRejects(client, url) == client.https_only /\ url.scheme # "https"

\* ArcSwap::load on cell c.
LoadStale(c) ==
    IF \E u \in DOMAIN upd : upd[u].cell = c
    THEN upd[CHOOSE u \in DOMAIN upd : upd[u].cell = c].base
    ELSE cell[c]
Load(c) == cell[c]

\* The state a step of request r reads: the guard captured by execute_request.
StateUsedStale(r) == cell[req[r].via]
StateUsed(r) == req[r].client

EntityHeaders ==
    {"transfer-encoding", "content-encoding", "content-type", "content-length"}

\* PendingRequest::poll, the match on the response status: what it does to
\* the request's own method, body and headers.
AfterStatusOnly303(p, status) ==
    IF status = 303
    THEN [p EXCEPT !.body = None,
                   !.headers = RemoveAll(@, EntityHeaders),
                   !.method = IF @ \in {"GET", "HEAD"} THEN @ ELSE "GET"]
    ELSE p
AfterStatus(p, status) ==
    IF status \in {301, 302, 303}
    THEN [p EXCEPT !.body = None,
                   !.headers = RemoveAll(@, EntityHeaders),
                   !.method = IF @ \in {"GET", "HEAD"} THEN @ ELSE "GET"]
    ELSE p

\* Whether the status makes the response a redirect to consider.
ShouldRedirectAnyBody(p, status) == status \in {301, 302, 303, 307, 308}
ShouldRedirect(p, status) ==
    \/ status \in {301, 302, 303}
    \/ status \in {307, 308} /\ p.body # "stream"

\* The Location of the response joined to the current URL, if it is usable.
LocationValid(p, resp) ==
    resp.location.kind \in {"abs", "rel"} /\ try_uri(Join(p.url, resp.location))

\* The redirect target the response names, if it names a usable one.
Target(p, resp) ==
    IF LocationValid(p, resp) THEN Join(p.url, resp.location) ELSE NoTarget

\* The headers of the next hop: the request's headers with the sensitive
\* ones removed on a cross-origin hop, then the store's cookies appended.
NextHeadersNoStrip(p, client, jars, loc, urls) ==
    IF client.cookie_store # None
    THEN add_cookie_header(jars[client.cookie_store], p.headers, loc)
    ELSE p.headers
NextHeaders(p, client, jars, loc, urls) ==
    LET stripped == remove_sensitive_headers(p.headers, loc, urls)
    IN IF client.cookie_store # None
       THEN add_cookie_header(jars[client.cookie_store], stripped, loc)
       ELSE stripped

\* The URL history after the current URL is pushed to it.
PushUrlNever(p) == p.urls
PushUrl(p) == Append(p.urls, p.url)

\* PendingRequest::poll on a response, up to the point where the next
\* request is handed to the HTTP client.
\*   out = "follow": p is the request state of the next hop
\*   out = "ok"    : the response is returned, with p.url as its url()
\*   out = "err"   : the future fails with err, annotated with errUrl
PollOutcome(p0, client, jars, resp) ==
    LET p1 == AfterStatus(p0, resp.status)
        loc == Join(p0.url, resp.location)
        ref == make_referer(loc, p0.url)
        p2 == [p1 EXCEPT !.headers = IF client.referer /\ ref # None
                                     THEN HeaderInsert(@, "referer", ref) ELSE @,
                         !.urls = PushUrl(p0)]
        policy == IF p0.redirect.kind # "unset" THEN p0.redirect ELSE client.redirect
        action == PolicyCheck(policy, p2.urls)
        Out(o, p, e, u) == [out |-> o, p |-> p, err |-> e, errUrl |-> u]
    IN IF ~(ShouldRedirect(p0, resp.status) /\ LocationValid(p0, resp))
       THEN Out("ok", p1, None, p1.url)
       ELSE CASE action = "Stop" -> Out("ok", p2, None, p2.url)
              [] action = "Error" -> Out("err", p2, "too_many_redirects", p2.url)
              [] OTHER ->
                   IF loc.scheme \notin {"http", "https"}
                   THEN Out("err", p2, "url_bad_scheme", loc)
                   ELSE IF HttpsOnlyRejects(client, loc)
                   THEN Out("err", p2, "redirect_bad_scheme", loc)
                   ELSE Out("follow",
                            [p2 EXCEPT !.url = loc,
                                       !.headers = NextHeaders(p2, client, jars, loc, p2.urls)],
                            None, loc)

\* is_retryable_error
is_retryable_error(err) ==
    err \in {"h2_goaway_remote_no_error", "h2_reset_remote_refused_stream"}

ErrorKinds ==
    {"h2_goaway_remote_no_error", "h2_reset_remote_refused_stream",
     "h2_goaway_local_no_error", "io"}

\* PendingRequest::retry_error: whether the request is sent again.
retry_errorAnyBody(p, err) ==
    /\ is_retryable_error(err)
    /\ p.http2_retry_count < p.http2_max_retry_count
    /\ try_uri(p.url)
retry_error(p, err) ==
    /\ is_retryable_error(err)
    /\ p.body # "stream"
    /\ p.http2_retry_count < p.http2_max_retry_count
    /\ try_uri(p.url)

(***************************************************************************)
(* Inputs: what callers and servers may do, per scenario.                  *)
(***************************************************************************)
Input(method, url, headers, body) ==
    [method |-> method, url |-> url, headers |-> headers, headers_order |-> None,
     body |-> body, redirect |-> PolicyUnset, network_scheme |-> None,
     allow_compression |-> TRUE, extensions |-> NoExtensions]

UserHeaders(names) == [n \in HeaderNames |-> IF n \in names THEN <<"u">> ELSE <<>>]

Response(status, location, setCookie) ==
    [status |-> status, location |-> location, set_cookie |-> setCookie]

RedirectStatuses == {301, 302, 303, 307, 308}

Inputs ==
    CASE scenario \in {"swap", "clone", "apply_error"} ->
           {Input("GET", UrlA1, EmptyHeaders, None)}
      [] scenario = "builder" ->
           {Input("GET", u, EmptyHeaders, None) : u \in {UrlA1, UrlHttpA1}}
      [] scenario = "retry" ->
           {Input(m, UrlA1, EmptyHeaders, b) : m \in {"GET", "POST"}, b \in Bodies}
      [] scenario = "timeout" ->
           {[Input("GET", UrlA1, EmptyHeaders, None) EXCEPT
                !.extensions = [timeout |-> t, read_timeout |-> rt]] :
              t \in {NoTimeout, 1}, rt \in {NoTimeout, 1}}
      [] scenario = "retry_layer" ->
           {Input(m, UrlA1, h, b) :
              m \in {"GET", "POST"},
              h \in {EmptyHeaders, UserHeaders({"x-custom"})},
              b \in Bodies}
      [] scenario = "encoding" ->
           {[Input("GET", UrlA1, h, None) EXCEPT !.allow_compression = ac] :
              h \in {EmptyHeaders, UserHeaders({"accept-encoding"}), UserHeaders({"range"}),
                     UserHeaders({"accept-encoding", "range"})},
              ac \in BOOLEAN}
      [] scenario = "errors" ->
           {Input("GET", u, EmptyHeaders, None) : u \in {UrlA1, UrlFtpA1}}
      [] scenario = "upgrade" ->
           {Input("GET", UrlHttpA1, UserHeaders({"connection", "upgrade"}), None)}
      [] scenario = "cookies" ->
           {Input("GET", UrlA1, h, None) : h \in {EmptyHeaders, UserHeaders({"cookie"})}}
      [] scenario = "proxied" ->
           {[Input("GET", u, h, None) EXCEPT !.network_scheme = ns] :
              u \in {UrlA1, UrlHttpA1},
              h \in {EmptyHeaders, UserHeaders({"proxy-authorization"})},
              ns \in {None, "px-own"}}
      [] scenario = "proxy_flag" ->
           {Input("GET", u, EmptyHeaders, None) : u \in {UrlA1, UrlHttpA1}}
      [] scenario = "redirect" ->
           {Input(m, UrlA1, h, b) :
              m \in Methods,
              h \in {EmptyHeaders, UserHeaders(EntityHeaders)},
              b \in Bodies}
      [] OTHER ->
           {Input(m, u, h, None) :
              m \in {"GET"},
              u \in {UrlA1, UrlHttpA1},
              h \in {EmptyHeaders, UserHeaders(SensitiveHeaders),
                     UserHeaders({"authorization"})}}

Responses ==
    CASE scenario = "swap" ->
           {Response(200, NoLoc, <<>>), Response(302, AbsLoc(UrlA2), <<>>)}
      [] scenario \in {"clone", "apply_error", "proxy_flag"} ->
           {Response(200, NoLoc, <<>>)}
      [] scenario \in {"timeout", "encoding"} ->
           {Response(200, NoLoc, <<>>), Response(302, AbsLoc(UrlA2), <<>>)}
      [] scenario \in {"retry", "retry_layer"} ->
           {Response(200, NoLoc, <<>>), Response(307, AbsLoc(UrlA2), <<>>)}
      [] scenario = "builder" ->
           {Response(200, NoLoc, <<>>)} \cup
           {Response(st, l, <<>>) :
              st \in {301, 302, 307},
              l \in {AbsLoc(UrlA2), AbsLoc(UrlB1), AbsLoc(UrlHttpA1)}}
      [] scenario = "upgrade" ->
           {Response(101, NoLoc, <<>>), Response(101, AbsLoc(UrlA2), <<>>),
            Response(200, NoLoc, <<>>), Response(302, AbsLoc(UrlA2), <<>>)}
      [] scenario = "errors" ->
           {Response(200, NoLoc, <<>>)} \cup
           {Response(302, l, <<>>) : l \in {AbsLoc(UrlA2), AbsLoc(UrlB1), AbsLoc(UrlFtpA1)}}
      [] scenario = "proxied" ->
           {Response(200, NoLoc, <<>>)} \cup
           {Response(302, l, <<>>) : l \in {AbsLoc(UrlA2), AbsLoc(UrlHttpA1)}}
      [] scenario = "cookies" ->
           {Response(st, NoLoc, sc) : st \in {200, 404}, sc \in {<<>>, <<"c2">>}} \cup
           {Response(302, l, sc) :
              l \in {AbsLoc(UrlA2), AbsLoc(UrlB1)}, sc \in {<<>>, <<"c2">>}}
      [] scenario = "redirect" ->
           {Response(200, NoLoc, <<>>)} \cup
           {Response(st, l, <<>>) :
              st \in RedirectStatuses,
              l \in {NoLoc, AbsLoc(UrlA2), AbsLoc(UrlB1), RelLoc("/2")}}
      [] OTHER ->
           {Response(200, NoLoc, <<>>)} \cup
           {Response(st, l, sc) :
              st \in {302, 307},
              l \in {AbsLoc(UrlA2), AbsLoc(UrlB1), AbsLoc(UrlHttpA1), AbsLoc(UrlAltA1)},
              sc \in {<<>>, <<"c2">>}}

Errors ==
    CASE scenario \in {"swap", "timeout"} -> {"h2_goaway_remote_no_error"}
      [] scenario \in {"clone", "builder", "apply_error", "proxy_flag"} -> {"io"}
      [] scenario \in {"retry", "retry_layer"} -> ErrorKinds
      [] OTHER -> {"h2_goaway_remote_no_error", "io"}

\* What InnerRequest::builder()...body(body) returns.
BuilderResults == IF scenario = "errors" THEN {"ok", "err"} ELSE {"ok"}
\* What TlsConnector::builder(tls_config)...build() returns in apply.
TlsBuildResults == IF scenario = "apply_error" THEN {"ok", "err"} ELSE {"ok"}

MaxReqs ==
    CASE scenario = "swap" -> MaxSwapOps - Len(upd)
      [] scenario \in {"retry_layer", "facade"} -> 0
      [] OTHER -> 1
MaxLayerReqs == IF scenario = "retry_layer" THEN 1 ELSE 0
MaxUpd == IF scenario = "swap" THEN MaxSwapOps - Len(req)
          ELSE IF scenario \in {"alpn", "emulation", "proxy_flag"} THEN MaxEmulationSwaps
          ELSE MaxUpdates

PoolIds == {"p0", "p1"}

(***************************************************************************)
(* Actions of a request.                                                   *)
(***************************************************************************)
\* The HTTP client takes a request: it is sent on an idle connection of its
\* pool key, or on a new one dialled with the client's TLS configuration.
Conns(pl, hyper, uri, net) == Acquire(pl[hyper.pool], PoolKey(uri, net, hyper), hyper)

\* Client::execute_request
Execute(h, input) ==
    /\ Len(req) < MaxReqs
    /\ h \in DOMAIN handle
    /\ LET c == handle[h].cell
           client == Load(c)
           headers == FirstHeaders(client, store, input)
           net == network_scheme(client, input.url, input.network_scheme)
           order == IF input.headers_order # None
                    THEN input.headers_order ELSE client.headers_order
       IN IF input.url.scheme \notin {"http", "https"}
          THEN /\ req' = Append(req, ErrRequest(h, c, input, "url_bad_scheme"))
               /\ captured' = Append(captured, {})
               /\ used' = Append(used, {})
               /\ UNCHANGED pool
          ELSE IF HttpsOnlyRejects(client, input.url)
          THEN /\ req' = Append(req, ErrRequest(h, c, input, "url_bad_scheme"))
               /\ captured' = Append(captured, {client})
               /\ used' = Append(used, {client})
               /\ UNCHANGED pool
          ELSE IF ~try_uri(input.url)
          THEN /\ req' = Append(req, ErrRequest(h, c, input, "url_bad_uri"))
               /\ captured' = Append(captured, {client})
               /\ used' = Append(used, {client})
               /\ UNCHANGED pool
          ELSE \E built \in BuilderResults :
               IF built = "err"
               THEN /\ req' = Append(req, ErrRequest(h, c, input, "builder"))
                    /\ captured' = Append(captured, {client})
                    /\ used' = Append(used, {client})
                    /\ UNCHANGED pool
               ELSE
               \E conn \in Conns(pool, client.hyper, input.url, net) :
               /\ req' = Append(req,
                      [st |-> "inflight", by |-> h, via |-> c, method |-> input.method,
                       url |-> input.url, headers |-> headers,
                       headers_order |-> order, body |-> input.body,
                       extensions |-> input.extensions,
                       given |-> input, received |-> NoReceived,
                       urls |-> <<>>, http2_retry_count |-> 0, retried |-> {},
                       total_timeout |-> total_timeout(client, input.extensions),
                       read_timeout_fut |-> read_timeout(client, input.extensions),
                       read_timeout |-> read_timeout(client, input.extensions),
                       armed |-> total_timeout(client, input.extensions),
                       elapsed |-> 0, dispatched_at |-> 0,
                       response_deadline |-> NoTimeout,
                       http2_max_retry_count |-> client.http2_max_retry_count,
                       redirect |-> input.redirect, network_scheme |-> net,
                       client |-> client,
                       in_flight |-> InnerRequest(input.url, input.method, headers,
                                                  order, FirstBody(input.body), net,
                                                  client.hyper, conn),
                       sent |-> 1, result |-> StillPending])
               /\ captured' = Append(captured, {client})
               /\ used' = Append(used, {client})
               /\ pool' = Checkout(pool, client.hyper, conn)
    /\ hop' = Append(hop, NoHop)
    /\ UNCHANGED <<scenario, svc, layer, cell, handle, upd, store, published>>

\* PendingRequest::poll, the two timers it looks at before anything else.
ExpiredTotalOnly(p) == p.total_timeout = 0
Expired(p) == p.total_timeout = 0 \/ p.read_timeout_fut = 0

\* The total deadline given to the Response: the timer of the request, taken.
ResponseDeadlineFresh(p) == p.armed
ResponseDeadline(p) == p.total_timeout

\* PendingRequest::poll, the Set-Cookie headers of a response: they are
\* offered to the cookie store with the URL of the request.
OfferCookiesFinalOnly(client, jars, resp, url) ==
    IF client.cookie_store # None /\ resp.set_cookie # <<>>
       /\ resp.status \notin {301, 302, 303, 307, 308}
    THEN [jars EXCEPT ![client.cookie_store] = StoreSetCookies(@, resp.set_cookie, url)]
    ELSE jars
OfferCookies(client, jars, resp, url) ==
    IF client.cookie_store # None /\ resp.set_cookie # <<>>
    THEN [jars EXCEPT ![client.cookie_store] = StoreSetCookies(@, resp.set_cookie, url)]
    ELSE jars

\* PendingRequest::poll when the exchange in flight yields a response.
PollResponse(r, resp) ==
    /\ r \in DOMAIN req
    /\ req[r].st = "inflight"
    /\ ~Expired(req[r])
    /\ LET p0 == req[r]
           client == StateUsed(r)
           jars == OfferCookies(client, store, resp, p0.url)
           got == Received(p0.received.n + 1, "response", resp.set_cookie)
           pool1 == Release(pool, p0.in_flight.hyper, p0.in_flight.conn)
           o == PollOutcome(p0, client, jars, resp)
       IN /\ store' = jars
          /\ used' = [used EXCEPT ![r] = @ \cup {client}]
          /\ IF o.out = "follow"
             THEN \E built \in BuilderResults :
                  IF built = "err"
                  THEN /\ req' = [req EXCEPT ![r] =
                             [o.p EXCEPT !.st = "done",
                                         !.received = got,
                                         !.headers = EmptyHeaders,
                                         !.result = Pending("err", "builder", resp.status,
                                                            ErrorUrl("builder", o.p.url),
                                                            Target(p0, resp))]]
                       /\ pool' = pool1
                       /\ UNCHANGED hop
                  ELSE
                  \E conn \in Conns(pool1, client.hyper, o.p.url, o.p.network_scheme) :
                  /\ req' = [req EXCEPT ![r] =
                        [o.p EXCEPT !.in_flight =
                            InnerRequest(o.p.url, o.p.method, o.p.headers,
                                         o.p.headers_order, ResendBody(o.p.body),
                                         o.p.network_scheme, client.hyper, conn),
                                    !.dispatched_at = o.p.elapsed,
                                    !.received = got,
                                    !.sent = @ + 1]]
                  /\ pool' = Checkout(pool1, client.hyper, conn)
                  /\ hop' = [hop EXCEPT ![r] =
                        [n |-> @.n + 1, status |-> resp.status, prev |-> p0.in_flight,
                         prevUrl |-> p0.url, location |-> resp.location,
                         storeAsked |-> client.cookie_store # None,
                         swapped |-> cell[p0.via] # p0.client,
                         storeAns |-> IF client.cookie_store # None
                                      THEN StoreCookies(jars[client.cookie_store], o.p.url)
                                      ELSE <<>>]]
             ELSE /\ req' = [req EXCEPT ![r] =
                        [o.p EXCEPT !.st = "done",
                                    !.received = got,
                                    !.response_deadline =
                                        IF o.out = "ok" THEN ResponseDeadline(o.p) ELSE @,
                                    !.result = IF o.out = "ok"
                                               THEN Pending("ok", None, resp.status, o.errUrl, Target(p0, resp))
                                               ELSE Pending("err", o.err, resp.status, o.errUrl, Target(p0, resp))]]
                  /\ pool' = pool1
                  /\ UNCHANGED hop
    /\ UNCHANGED <<scenario, svc, layer, cell, handle, upd, published, captured>>

\* PendingRequest::poll when the exchange in flight fails with err: the
\* connection is not pooled again; the request is retried or fails.
PollError(r, err) ==
    /\ r \in DOMAIN req
    /\ req[r].st = "inflight"
    /\ ~Expired(req[r])
    /\ LET p0 == req[r]
           client == StateUsed(r)
       IN \E built \in BuilderResults :
          IF retry_error(p0, err) /\ built = "err"
          THEN /\ req' = [req EXCEPT ![r] =
                     [p0 EXCEPT !.st = "done",
                                !.http2_retry_count = @ + 1,
                                !.received = Received(@.n + 1, "error", <<>>),
                                !.result = Pending("err", err, 0, p0.url, NoTarget)]]
               /\ UNCHANGED <<pool, used>>
          ELSE IF retry_error(p0, err)
          THEN \E conn \in Conns(pool, client.hyper, p0.url, p0.network_scheme) :
               /\ req' = [req EXCEPT ![r] =
                     [p0 EXCEPT !.http2_retry_count = @ + 1,
                                !.received = Received(@.n + 1, "error", <<>>),
                                !.retried = @ \cup {err},
                                !.in_flight =
                                    InnerRequest(p0.url, p0.method, p0.headers,
                                                 p0.headers_order, ResendBody(p0.body),
                                                 p0.network_scheme, client.hyper, conn),
                                !.dispatched_at = p0.elapsed,
                                !.sent = @ + 1]]
               /\ pool' = Checkout(pool, client.hyper, conn)
               /\ used' = [used EXCEPT ![r] = @ \cup {client}]
          ELSE /\ req' = [req EXCEPT ![r] =
                     [p0 EXCEPT !.st = "done",
                                !.received = Received(@.n + 1, "error", <<>>),
                                !.result = Pending("err", err, 0, p0.url, NoTarget)]]
               /\ UNCHANGED <<pool, used>>
    /\ UNCHANGED <<scenario, svc, layer, cell, handle, upd, store, published, captured, hop>>

\* PendingRequest::poll when one of the timers has expired: the future
\* fails with TimedOut; the exchange in flight is dropped with it.
PollTimeout(r) ==
    /\ r \in DOMAIN req
    /\ req[r].st = "inflight"
    /\ Expired(req[r])
    /\ req' = [req EXCEPT ![r] =
          [@ EXCEPT !.st = "done",
                    !.result = Pending("err", "timed_out", 0, req[r].url, NoTarget)]]
    /\ UNCHANGED <<scenario, svc, layer, cell, handle, upd, store, pool, published, captured,
                   used, hop>>

\* Time passes by one tick while request r waits for its exchange: the
\* timers that are set run down.
Tick(r) ==
    /\ r \in DOMAIN req
    /\ req[r].st = "inflight"
    /\ req[r].total_timeout # 0 /\ req[r].read_timeout_fut # 0
    /\ req[r].elapsed <= MaxTime
    /\ req' = [req EXCEPT ![r] =
          [@ EXCEPT !.elapsed = @ + 1,
                    !.total_timeout = IF @ = NoTimeout THEN @ ELSE @ - 1,
                    !.read_timeout_fut = IF @ = NoTimeout THEN @ ELSE @ - 1]]
    /\ UNCHANGED <<scenario, svc, layer, cell, handle, upd, store, pool, published, captured,
                   used, hop>>

(***************************************************************************)
(* The retry middleware: tower's Retry service driving Http2RetryPolicy.   *)
(***************************************************************************)
\* Http2RetryPolicy::clone_request: none when the body cannot be cloned.
clone_request(request) ==
    IF request.body = "stream"
    THEN [some |-> FALSE, v |-> request]
    ELSE [some |-> TRUE, v |-> request]

\* Http2RetryPolicy::retry on the result of a call: whether the request is
\* tried again, and the attempts the policy has left afterwards.
retry(attempts, result) ==
    IF result.kind # "err" THEN [retry |-> FALSE, attempts |-> attempts]
    ELSE IF is_retryable_error(result.err) THEN [retry |-> TRUE, attempts |-> attempts]
    ELSE IF attempts > 0 THEN [retry |-> TRUE, attempts |-> attempts - 1]
    ELSE [retry |-> FALSE, attempts |-> attempts]

\* The request the middleware hands to the inner service.
LayerRequest(input) ==
    [method |-> input.method, uri |-> input.url, headers |-> input.headers,
     body |-> FirstBody(input.body)]

LayerResults ==
    {[kind |-> "ok", err |-> None]} \cup {[kind |-> "err", err |-> e] : e \in Errors}

\* Retry::call: the request is cloned for a later retry, then sent.
LayerCall(input) ==
    /\ Len(layer) < MaxLayerReqs
    /\ layer' = Append(layer,
          [st |-> "called", max |-> MaxRetries, attempts |-> MaxRetries,
           first |-> LayerRequest(input), request |-> clone_request(LayerRequest(input)),
           in_flight |-> LayerRequest(input), calls |-> 1, retries |-> 0,
           retried |-> {}, result |-> [kind |-> "pending", err |-> None]])
    /\ UNCHANGED <<scenario, svc, cell, handle, upd, req, store, pool, published, captured,
                   used, hop>>

\* The future of Retry when the inner call completes with a result.
LayerResult(i, result) ==
    /\ i \in DOMAIN layer
    /\ layer[i].st = "called"
    /\ LET l == layer[i]
           d == retry(l.attempts, result)
       IN IF l.request.some /\ d.retry
          THEN /\ l.calls < MaxLayerCalls
               /\ layer' = [layer EXCEPT ![i] =
                     [l EXCEPT !.attempts = d.attempts,
                               !.in_flight = l.request.v,
                               !.request = clone_request(l.request.v),
                               !.calls = @ + 1,
                               !.retries = @ + 1,
                               !.retried = @ \cup {result.err}]]
          ELSE layer' = [layer EXCEPT ![i] =
                     [l EXCEPT !.st = "done", !.result = result]]
    /\ UNCHANGED <<scenario, svc, cell, handle, upd, req, store, pool, published, captured,
                   used, hop>>

(***************************************************************************)
(* The future of a request sent through the service stack (Pending of      *)
(* client/future.rs).                                                      *)
(***************************************************************************)
\* What the in-flight future of the stack resolves to: a response, maybe
\* with the RequestUri of the last hop, or a boxed error that is or is not
\* an Error of this crate and does or does not carry a URL.
FacadeResults ==
    {[kind |-> "ok", own |-> FALSE, url |-> u] : u \in {NoUrl, UrlA2}} \cup
    {[kind |-> "err", own |-> TRUE, url |-> u] : u \in {NoUrl, UrlB1}} \cup
    {[kind |-> "err", own |-> FALSE, url |-> NoUrl]}

\* Pending::poll, the Err arm: the error as it is if it is one of this
\* crate, else wrapped by Error::request; then the URL if it has none.
FacadeError(url, e) ==
    LET e1 == IF e.own THEN e ELSE [e EXCEPT !.own = TRUE, !.url = NoUrl]
    IN IF e1.url = NoUrl THEN [e1 EXCEPT !.url = url] ELSE e1

\* Pending::poll of Pending::Request
FacadePoll(res) ==
    /\ svc.kind = "facade"
    /\ svc.st = "inflight"
    /\ svc' = [svc EXCEPT
                 !.st = "done",
                 !.polled = res,
                 !.url = IF res.kind = "ok" /\ res.url # NoUrl THEN res.url ELSE @,
                 !.result = IF res.kind = "err" THEN FacadeError(svc.url, res)
                            ELSE [res EXCEPT !.url = IF @ # NoUrl THEN @ ELSE svc.url]]
    /\ UNCHANGED <<scenario, cell, handle, upd, req, store, pool, published, captured,
                   used, hop, layer>>

(***************************************************************************)
(* Upgraded connections: after a 101 the connection is a byte stream in    *)
(* both directions between the caller and the server.                      *)
(***************************************************************************)
Bytes == {"x", "y"}

NoUpgrade ==
    [kind |-> "upgrade", st |-> "none", c2s |-> <<>>, s2c |-> <<>>,
     client_wrote |-> <<>>, server_read |-> <<>>,
     server_wrote |-> <<>>, client_read |-> <<>>,
     server_closed |-> FALSE, client_eof |-> FALSE]

\* Response::upgrade on the 101 response of request r.
ResponseUpgrade(r) ==
    /\ svc.kind = "upgrade" /\ svc.st = "none"
    /\ r \in DOMAIN req
    /\ req[r].st = "done" /\ req[r].result.kind = "ok" /\ req[r].result.status = 101
    /\ svc' = [svc EXCEPT !.st = "open"]
    /\ UNCHANGED <<scenario, cell, handle, upd, req, store, pool, published, captured,
                   used, hop, layer>>

\* The caller writes a byte to the upgraded stream.
ClientWrite(b) ==
    /\ svc.kind = "upgrade" /\ svc.st = "open"
    /\ Len(svc.client_wrote) < MaxBytes
    /\ svc' = [svc EXCEPT !.c2s = Append(@, b), !.client_wrote = Append(@, b)]
    /\ UNCHANGED <<scenario, cell, handle, upd, req, store, pool, published, captured,
                   used, hop, layer>>

\* The server reads the next byte the caller wrote.
ServerRead ==
    /\ svc.kind = "upgrade" /\ svc.st = "open"
    /\ svc.c2s # <<>>
    /\ svc' = [svc EXCEPT !.c2s = Tail(@), !.server_read = Append(@, Head(svc.c2s))]
    /\ UNCHANGED <<scenario, cell, handle, upd, req, store, pool, published, captured,
                   used, hop, layer>>

\* The server writes a byte to the upgraded stream.
ServerWrite(b) ==
    /\ svc.kind = "upgrade" /\ svc.st = "open"
    /\ ~svc.server_closed
    /\ Len(svc.server_wrote) < MaxBytes
    /\ svc' = [svc EXCEPT !.s2c = Append(@, b), !.server_wrote = Append(@, b)]
    /\ UNCHANGED <<scenario, cell, handle, upd, req, store, pool, published, captured,
                   used, hop, layer>>

\* The server drops its end of the stream.
ServerClose ==
    /\ svc.kind = "upgrade" /\ svc.st = "open"
    /\ ~svc.server_closed
    /\ svc' = [svc EXCEPT !.server_closed = TRUE]
    /\ UNCHANGED <<scenario, cell, handle, upd, req, store, pool, published, captured,
                   used, hop, layer>>

\* The caller reads: the next byte the server wrote, or end of stream when
\* the server has closed and nothing is left.
ClientRead ==
    /\ svc.kind = "upgrade" /\ svc.st = "open"
    /\ ~svc.client_eof
    /\ svc.s2c # <<>> \/ svc.server_closed
    /\ svc' = IF svc.s2c # <<>>
              THEN [svc EXCEPT !.s2c = Tail(@), !.client_read = Append(@, Head(svc.s2c))]
              ELSE [svc EXCEPT !.client_eof = TRUE]
    /\ UNCHANGED <<scenario, cell, handle, upd, req, store, pool, published, captured,
                   used, hop, layer>>

(***************************************************************************)
(* ClientBuilder: the proxy options and build.                             *)
(***************************************************************************)
\* Proxy::system(): the proxy read from the environment.
ProxySystem == Proxy("system", "all", FALSE)

\* An argument of proxy() that into_proxy() rejects.
BadProxy == Proxy("bad", "", FALSE)
into_proxy(p) == IF p = BadProxy THEN [ok |-> FALSE, v |-> p] ELSE [ok |-> TRUE, v |-> p]

\* Config as ClientBuilder::new sets it.
NewConfig == [error |-> FALSE, proxies |-> <<>>, auto_sys_proxy |-> TRUE]

\* ClientBuilder::proxy
proxy(config, p) ==
    IF into_proxy(p).ok
    THEN [config EXCEPT !.proxies = Append(@, into_proxy(p).v), !.auto_sys_proxy = FALSE]
    ELSE [config EXCEPT !.error = TRUE]

\* ClientBuilder::no_proxy
no_proxyKeepsSystem(config) == [config EXCEPT !.proxies = <<>>]
no_proxy(config) == [config EXCEPT !.proxies = <<>>, !.auto_sys_proxy = FALSE]

\* ClientBuilder::build, the proxies of the client: an error if a call of
\* the builder failed.
build(config) ==
    IF config.error THEN [ok |-> FALSE, proxies |-> <<>>, proxies_maybe_http_auth |-> FALSE]
    ELSE LET proxies == IF config.auto_sys_proxy
                        THEN Append(config.proxies, ProxySystem) ELSE config.proxies
         IN [ok |-> TRUE, proxies |-> proxies,
             proxies_maybe_http_auth |-> AnyProxy(proxies, 1)]

NotBuilt == [ok |-> FALSE, proxies |-> <<>>, proxies_maybe_http_auth |-> FALSE]

\* A call of proxy() on the builder.
BuilderProxy(p) ==
    /\ svc.kind = "builder" /\ ~svc.done
    /\ Len(svc.calls) < MaxBuilderCalls
    /\ svc' = [svc EXCEPT !.config = proxy(@, p),
                          !.calls = Append(@, [op |-> "proxy", arg |-> p])]
    /\ UNCHANGED <<scenario, cell, handle, upd, req, store, pool, published, captured,
                   used, hop, layer>>

\* A call of no_proxy() on the builder.
BuilderNoProxy ==
    /\ svc.kind = "builder" /\ ~svc.done
    /\ Len(svc.calls) < MaxBuilderCalls
    /\ svc' = [svc EXCEPT !.config = no_proxy(@),
                          !.calls = Append(@, [op |-> "no_proxy", arg |-> BadProxy])]
    /\ UNCHANGED <<scenario, cell, handle, upd, req, store, pool, published, captured,
                   used, hop, layer>>

\* build() consumes the builder.
BuilderBuild ==
    /\ svc.kind = "builder" /\ ~svc.done
    /\ svc' = [svc EXCEPT !.done = TRUE, !.built = build(svc.config)]
    /\ UNCHANGED <<scenario, cell, handle, upd, req, store, pool, published, captured,
                   used, hop, layer>>

(***************************************************************************)
(* The connector (ConnectorService): direct connections, HTTP proxies,     *)
(* CONNECT tunnels and SOCKS proxies.                                      *)
(***************************************************************************)
SocksSchemes == {"socks4", "socks4a", "socks5", "socks5h"}

\* A proxy matcher of the connector: the scheme of the proxy's own URI, the
\* destination schemes it intercepts, whether it has basic auth and custom
\* headers.
Matcher(scheme, scope, auth, headers) ==
    [scheme |-> scheme, scope |-> scope, basic_auth |-> auth, custom_headers |-> headers]
MatcherHttp == Matcher("http", "all", TRUE, TRUE)
MatcherHttpsOnly == Matcher("https", "https", TRUE, FALSE)
MatcherSocks == Matcher("socks5", "all", TRUE, FALSE)

\* Intercepted: the proxy a destination goes through, or none.
NoIntercepted == [some |-> FALSE, scheme |-> "", basic_auth |-> FALSE, custom_headers |-> FALSE]
Intercepted(m) ==
    [some |-> TRUE, scheme |-> m.scheme, basic_auth |-> m.basic_auth,
     custom_headers |-> m.custom_headers]

\* Matcher::intercept(uri)
intercept(m, uri) ==
    IF m.scope = "all" \/ m.scope = uri.scheme THEN Intercepted(m) ELSE NoIntercepted

\* The CONNECT request of a tunnel, or none.
NoConnect == [sent |-> FALSE, auth |-> FALSE, headers |-> FALSE]
\* Tunnel::new(..) with with_auth and with_headers, then call: the CONNECT
\* request carries what the tunnel was given.
Tunnel(auth, headers) == [sent |-> TRUE, auth |-> auth, headers |-> headers]

\* Conn: the route of the stream, where TLS ends ("target", "proxy" or
\* none), the CONNECT request sent while connecting, and is_proxy.
Conn(via, tls, connect, is_proxy) ==
    [via |-> via, tls |-> tls, connect |-> connect, is_proxy |-> is_proxy]

\* ConnectorService::connect_socks
connect_socks(dst, prx) ==
    IF dst.scheme = "https"
    THEN Conn("socks", "target", NoConnect, FALSE)
    ELSE Conn("socks", None, NoConnect, FALSE)

\* ConnectorService::connect_with_maybe_proxy: dials uri, with TLS if uri is
\* https.
connect_with_maybe_proxy(uriScheme, peer, is_proxy) ==
    Conn(IF is_proxy THEN "http_proxy" ELSE "direct",
         IF uriScheme = "https" THEN peer ELSE None, NoConnect, is_proxy)

\* ConnectorService::connect_via_proxy
connect_via_proxyTunnelMarked(dst, prx) ==
    IF prx.scheme \in SocksSchemes THEN connect_socks(dst, prx)
    ELSE IF dst.scheme = "https"
    THEN Conn("tunnel", "target", Tunnel(prx.basic_auth, prx.custom_headers), TRUE)
    ELSE connect_with_maybe_proxy(prx.scheme, "proxy", TRUE)
connect_via_proxy(dst, prx) ==
    IF prx.scheme \in SocksSchemes THEN connect_socks(dst, prx)
    ELSE IF dst.scheme = "https"
    THEN Conn("tunnel", "target", Tunnel(prx.basic_auth, prx.custom_headers), FALSE)
    ELSE connect_with_maybe_proxy(prx.scheme, "proxy", TRUE)

\* The first matcher of the connector that intercepts uri, or none.
RECURSIVE FirstIntercepted(_, _, _)
FirstIntercepted(proxies, uri, i) ==
    IF i > Len(proxies) THEN NoIntercepted
    ELSE IF intercept(proxies[i], uri).some THEN intercept(proxies[i], uri)
    ELSE FirstIntercepted(proxies, uri, i + 1)

\* ConnectorService::call(dst): the proxy the request brought with it, else
\* the first matcher of the connector that intercepts, else direct.
ConnectorCallConn(proxies, dst, own) ==
    IF own.some THEN connect_via_proxy(dst, own)
    ELSE IF FirstIntercepted(proxies, dst, 1).some
    THEN connect_via_proxy(dst, FirstIntercepted(proxies, dst, 1))
    ELSE connect_with_maybe_proxy(dst.scheme, "target", FALSE)

\* One connection asked of the connector; dialling, the tunnel or the
\* handshake may fail (io), and then no connection is returned.
ConnectorCall(dst, own, io) ==
    /\ svc.kind = "connector"
    /\ Len(svc.conns) < MaxConnects
    /\ svc' = [svc EXCEPT !.conns = Append(@,
                  [dst |-> dst, own |-> own, ok |-> io = "ok",
                   conn |-> IF io = "ok" THEN ConnectorCallConn(svc.proxies, dst, own)
                            ELSE Conn(None, None, NoConnect, FALSE)])]
    /\ UNCHANGED <<scenario, cell, handle, upd, req, store, pool, published, captured,
                   used, hop, layer>>

(***************************************************************************)
(* The decompression middleware: Decompression wraps the decoder service   *)
(* of tower-http.                                                          *)
(***************************************************************************)
\* Decompression::accepts: the decoder with its options set from accepts.
accepts(decoder, accpets) ==
    [decoder EXCEPT !.gzip = accpets.gzip, !.deflate = accpets.deflate,
                    !.br = accpets.brotli, !.zstd = accpets.zstd]

\* The decoder of tower-http as TowerDecompression::new makes it.
TowerDecompressionNew == [gzip |-> TRUE, deflate |-> TRUE, br |-> TRUE, zstd |-> TRUE]

\* Decompression::new
DecompressionNew(accpets) == [decoder |-> accepts(TowerDecompressionNew, accpets)]

\* std::mem::replace(dest, src): dest holds src, the old value is returned.
MemReplace(dest, src) == [dest |-> src, returned |-> dest]

\* Decompression::call up to the call of the decoder: self.decoder after
\* the per-request override, if any, has been dealt with.  The value that
\* mem::replace returns is assigned to the field it was taken from.
DecoderForCall(self, own) ==
    IF own.some
    THEN LET inner == accepts(self.decoder, own.v)
             swapped == MemReplace(self.decoder, inner)
         IN [self EXCEPT !.decoder = swapped.returned]
    ELSE self

\* The per-request accept-encoding override: absent or a set of decoders.
NoOverride == [some |-> FALSE, v |-> AcceptsNone]

Encodings == {"gzip", "deflate", "br", "zstd"}

\* The decoder of tower-http on a request: the encodings it advertises
\* and will decode are the ones enabled in it when it is called.
TowerCall(decoder) == {e \in Encodings : decoder[e]}

\* Decompression::call
DecompressionCall(own) ==
    /\ svc.kind = "decompression"
    /\ Len(svc.calls) < MaxDecoderCalls
    /\ LET self == DecoderForCall(svc.self, own)
       IN svc' = [svc EXCEPT !.self = self,
                             !.calls = Append(@, [own |-> own,
                                                  accept |-> TowerCall(self.decoder),
                                                  content_encoding |-> None,
                                                  decoded |-> FALSE])]
    /\ UNCHANGED <<scenario, cell, handle, upd, req, store, pool, published, captured,
                   used, hop, layer>>

\* The response of call i arrives with a Content-Encoding: its body is
\* decoded if the encoding is one the call accepted.
DecompressionResponse(i, enc) ==
    /\ svc.kind = "decompression"
    /\ i \in DOMAIN svc.calls
    /\ svc.calls[i].content_encoding = None
    /\ svc' = [svc EXCEPT !.calls[i] =
                  [@ EXCEPT !.content_encoding = enc,
                            !.decoded = enc \in svc.calls[i].accept]]
    /\ UNCHANGED <<scenario, cell, handle, upd, req, store, pool, published, captured,
                   used, hop, layer>>

(***************************************************************************)
(* Client handles and hot reconfiguration.                                 *)
(***************************************************************************)
\* Clone for Client: the new value shares the Arc<ArcSwap<ClientRef>>.
CloneOf(h) == [cell |-> handle[h].cell, group |-> handle[h].group]

Clone(h) ==
    /\ h \in DOMAIN handle
    /\ Len(handle) < MaxHandles
    /\ handle' = Append(handle, CloneOf(h))
    /\ UNCHANGED <<scenario, svc, layer, cell, upd, req, store, pool, published, captured, used, hop>>

\* Client::cloned: a new cell holding a copy of the current state.
\* "cell" is the cell the new client uses, "state" the ClientRef put in it.
clonedShared(h) == [cell |-> handle[h].cell, state |-> Load(handle[h].cell)]
cloned(h) == [cell |-> Len(cell) + 1, state |-> Load(handle[h].cell)]

Cloned(h) ==
    /\ h \in DOMAIN handle
    /\ Len(handle) < MaxHandles
    /\ LET n == cloned(h)
       IN /\ handle' = Append(handle, [cell |-> n.cell, group |-> Len(cell) + 1])
          /\ IF n.cell > Len(cell)
             THEN /\ cell' = Append(cell, n.state)
                  /\ published' = Append(published, n.state)
             ELSE UNCHANGED <<cell, published>>
    /\ UNCHANGED <<scenario, svc, layer, upd, req, store, pool, captured, used, hop>>

\* Client::update: the builder reads the current state once.
Update(h) ==
    /\ h \in DOMAIN handle
    /\ Len(upd) < MaxUpd
    /\ upd' = Append(upd,
          [handle |-> h, cell |-> handle[h].cell,
           base |-> Load(handle[h].cell), current |-> Load(handle[h].cell),
           emulation |-> [some |-> FALSE, v |-> NoProfile], applied |-> FALSE,
           failed |-> FALSE])
    /\ UNCHANGED <<scenario, svc, layer, cell, handle, req, store, pool, published, captured, used, hop>>

Edit(u, current) ==
    /\ u \in DOMAIN upd
    /\ ~upd[u].applied
    /\ upd' = [upd EXCEPT ![u].current = current]
    /\ UNCHANGED <<scenario, svc, layer, cell, handle, req, store, pool, published, captured, used, hop>>

\* ClientUpdate::headers with a closure that inserts a custom header.
UpdateHeaders(u) ==
    /\ u \in DOMAIN upd
    /\ Edit(u, [upd[u].current EXCEPT !.headers = HeaderInsert(@, "x-custom", "value")])

\* ClientUpdate::headers_order
UpdateHeadersOrder(u, order) ==
    /\ u \in DOMAIN upd
    /\ Edit(u, [upd[u].current EXCEPT !.headers_order = order])

\* ClientUpdate::cookie_provider
UpdateCookieProvider(u, jar) ==
    /\ u \in DOMAIN upd
    /\ Edit(u, [upd[u].current EXCEPT !.cookie_store = jar])

\* ClientUpdate::proxies
UpdateProxiesKeepsFlag(u, proxies) ==
    /\ u \in DOMAIN upd
    /\ Edit(u, [upd[u].current EXCEPT !.proxies = proxies])
UpdateProxies(u, proxies) ==
    /\ u \in DOMAIN upd
    /\ Edit(u, [upd[u].current EXCEPT !.proxies_maybe_http_auth = AnyProxy(proxies, 1),
                                      !.proxies = proxies])

\* ClientUpdate::unset_proxies
UpdateUnsetProxies(u) ==
    /\ u \in DOMAIN upd
    /\ Edit(u, [upd[u].current EXCEPT !.proxies = <<>>,
                                      !.proxies_maybe_http_auth = FALSE])

\* ClientUpdate::local_address
UpdateLocalAddress(u, addr) ==
    /\ u \in DOMAIN upd
    /\ Edit(u, [upd[u].current EXCEPT !.network_scheme = addr])

\* ClientUpdate::emulation: the profile is kept aside until apply.
UpdateEmulation(u, profile) ==
    /\ u \in DOMAIN upd
    /\ ~upd[u].applied
    /\ upd' = [upd EXCEPT ![u].emulation = Some(profile)]
    /\ UNCHANGED <<scenario, svc, layer, cell, handle, req, store, pool, published, captured, used, hop>>

\* ClientUpdate::apply, the state it derives from the builder.
DerivedProfileTls(current, emulation) ==
    IF ~emulation.some THEN current
    ELSE LET e == emulation.v
         IN [current EXCEPT
               !.headers = IF e.default_headers.some THEN e.default_headers.v ELSE @,
               !.headers_order = IF e.headers_order # None THEN e.headers_order ELSE @,
               !.hyper = [@ EXCEPT
                            !.http1 = IF e.http1_config # None THEN e.http1_config ELSE @,
                            !.http2 = IF e.http2_config # None THEN e.http2_config ELSE @,
                            !.tls = IF e.tls_config.some THEN e.tls_config.v ELSE @]]
Derived(current, emulation) ==
    IF ~emulation.some THEN current
    ELSE LET e == emulation.v
             tls0 == e.tls_config.v
             tls1 == [tls0 EXCEPT
                        !.alpn_protos = IF current.alpn_protos # None
                                        THEN current.alpn_protos ELSE @,
                        !.min_tls_version = IF current.min_tls_version # None
                                            THEN current.min_tls_version ELSE @,
                        !.max_tls_version = IF current.max_tls_version # None
                                            THEN current.max_tls_version ELSE @]
         IN [current EXCEPT
               !.headers = IF e.default_headers.some THEN e.default_headers.v ELSE @,
               !.headers_order = IF e.headers_order # None THEN e.headers_order ELSE @,
               !.hyper = [@ EXCEPT
                            !.http1 = IF e.http1_config # None THEN e.http1_config ELSE @,
                            !.http2 = IF e.http2_config # None THEN e.http2_config ELSE @,
                            !.tls = IF e.tls_config.some THEN tls1 ELSE @]]

\* ClientUpdate::apply up to its last statement: when the profile brings a TLS
\* configuration and TlsConnector::builder(..).build() fails, the `?` returns
\* the error before ArcSwap::store; otherwise the derived state is stored.
ApplyOutcomeStoresEdits(current, emulation, built) ==
    IF emulation.some /\ emulation.v.tls_config.some /\ built = "err"
    THEN [ok |-> FALSE, store |-> TRUE, state |-> current]
    ELSE [ok |-> TRUE, store |-> TRUE, state |-> Derived(current, emulation)]
ApplyOutcome(current, emulation, built) ==
    IF emulation.some /\ emulation.v.tls_config.some /\ built = "err"
    THEN [ok |-> FALSE, store |-> FALSE, state |-> current]
    ELSE [ok |-> TRUE, store |-> TRUE, state |-> Derived(current, emulation)]

\* ClientUpdate::apply: ArcSwap::store of the derived state.
ApplyIgnoresEmulation(u) ==
    /\ u \in DOMAIN upd
    /\ ~upd[u].applied
    /\ cell' = [cell EXCEPT ![upd[u].cell] = upd[u].current]
    /\ published' = [published EXCEPT ![upd[u].cell] = upd[u].current]
    /\ upd' = [upd EXCEPT ![u].applied = TRUE]
    /\ UNCHANGED <<scenario, svc, layer, handle, req, store, pool, captured, used, hop>>
Apply(u) ==
    /\ u \in DOMAIN upd
    /\ ~upd[u].applied
    /\ \E built \in TlsBuildResults :
          LET o == ApplyOutcome(upd[u].current, upd[u].emulation, built)
          IN /\ IF o.store
                THEN /\ cell' = [cell EXCEPT ![upd[u].cell] = o.state]
                     /\ published' = [published EXCEPT ![upd[u].cell] = o.state]
                ELSE UNCHANGED <<cell, published>>
             /\ upd' = [upd EXCEPT ![u].applied = TRUE, ![u].failed = ~o.ok]
    /\ UNCHANGED <<scenario, svc, layer, handle, req, store, pool, captured, used, hop>>

\* A TLS handshake of a connection dialled by the client of handle h: the
\* connector offers what the TLS configuration of the current state says.
Handshake(h) ==
    /\ svc.kind = "tls"
    /\ h \in DOMAIN handle
    /\ Len(svc.hello) < MaxHandshakes
    /\ LET client == Load(handle[h].cell)
           tls == client.hyper.tls
       IN svc' = [svc EXCEPT !.hello = Append(@,
                    [client |-> client,
                     swaps |-> Cardinality({u \in DOMAIN upd : upd[u].applied}),
                     alpn |-> AlpnNames(configure_alpn_protos(tls.alpn_protos)),
                     min_tls_version |-> tls.min_tls_version,
                     max_tls_version |-> tls.max_tls_version])]
    /\ UNCHANGED <<scenario, cell, handle, upd, req, store, pool, published, captured,
                   used, hop, layer>>

(***************************************************************************)
(* The Connector and its builder: Simple or WithLayers.                    *)
(***************************************************************************)
\* Option<Vec<BoxedConnectorLayer>>
NoLayers == [some |-> FALSE, v |-> <<>>]

\* HttpConnector: what the builder sets on it.
HttpConnector(connect_timeout) == [enforce_http |-> TRUE, connect_timeout |-> connect_timeout]

\* Connector::builder
ConnectorBuilderNew(http, tls, proxies, nodelay, tls_info) ==
    [http |-> [http EXCEPT !.enforce_http = FALSE], tls |-> tls, proxies |-> proxies,
     verbose |-> FALSE, timeout |-> NoTimeout, nodelay |-> nodelay, tls_info |-> tls_info]

\* ConnectorBuilder::timeout and ConnectorBuilder::verbose
BuilderTimeout(b, timeout) ==
    [b EXCEPT !.timeout = timeout, !.http.connect_timeout = timeout]
BuilderVerbose(b, enabled) == [b EXCEPT !.verbose = enabled]

\* ConnectorBuilder::build: the base service alone, or the layers folded
\* over a clone of it, under a timeout layer when a timeout is set.
ConnectorBuilderBuild(b, layers) ==
    LET base_service == [http |-> b.http, tls |-> b.tls, proxies |-> b.proxies,
                         verbose |-> b.verbose, nodelay |-> b.nodelay,
                         tls_info |-> b.tls_info, timeout |-> b.timeout]
    IN IF layers.some
       THEN [variant |-> "WithLayers", layers |-> layers.v, base_service |-> base_service,
             service |-> [inner |-> base_service, stack |-> layers.v,
                          timeout_layer |-> b.timeout]]
       ELSE [variant |-> "Simple", layers |-> <<>>, base_service |-> base_service,
             service |-> [inner |-> base_service, stack |-> <<>>,
                          timeout_layer |-> NoTimeout]]

\* Connector::set_tls_connector
set_tls_connectorBaseOnly(self, connector) ==
    [self EXCEPT !.base_service.tls = connector]
set_tls_connector(self, connector) ==
    IF self.variant = "Simple"
    THEN [self EXCEPT !.base_service.tls = connector, !.service.inner.tls = connector]
    ELSE LET base_service == self.base_service
             builder == BuilderVerbose(
                            BuilderTimeout(
                                ConnectorBuilderNew(base_service.http, connector,
                                                    base_service.proxies, base_service.nodelay,
                                                    base_service.tls_info),
                                base_service.timeout),
                            base_service.verbose)
         IN ConnectorBuilderBuild(builder, Some(self.layers))

\* A hot swap hands the connector a new TLS connector.
SetTlsConnector(tls) ==
    /\ svc.kind = "connector_tls"
    /\ svc.swaps < MaxTlsSwaps
    /\ svc' = [svc EXCEPT !.connector = set_tls_connector(@, tls),
                          !.swaps = @ + 1, !.tls_set = tls]
    /\ UNCHANGED <<scenario, cell, handle, upd, req, store, pool, published, captured,
                   used, hop, layer>>

(***************************************************************************)
(* The TLS session cache of an HttpsLayer.                                 *)
(***************************************************************************)
DefaultTlsPort == 443

\* A destination as setup_ssl sees it: the host and the port the URI
\* states, if it states one.
NoPort == [some |-> FALSE, v |-> 0]
TlsUri(host, port) == [host |-> host, port |-> port]

\* SessionKey of Inner::setup_ssl
SessionKeyDefaultPort(uri, host) == [host |-> host, port |-> DefaultTlsPort]
SessionKey(uri, host) ==
    [host |-> host, port |-> IF uri.port.some THEN uri.port.v ELSE DefaultTlsPort]

SessionKeys == {[host |-> h, port |-> p] : h \in Hosts, p \in {DefaultTlsPort, 8443}}

\* SessionCache::get and SessionCache::insert: one session per key, the
\* last one inserted; 0 stands for no session.
CacheGet(cache, key) == cache[key]
CacheInsert(cache, key, session) == [cache EXCEPT ![key] = session]

\* Inner::setup_ssl: the cached session of the key, if any, is set on the
\* connection, and the key is attached to the connection as ex_data.
SetupSsl(uri) ==
    /\ svc.kind = "tls_cache"
    /\ Len(svc.conns) < MaxTlsConns
    /\ LET key == SessionKey(uri, uri.host)
       IN svc' = [svc EXCEPT !.conns = Append(@,
                    [uri |-> uri, ex_data |-> key,
                     set_session |-> IF svc.enabled THEN CacheGet(svc.cache, key) ELSE 0])]
    /\ UNCHANGED <<scenario, cell, handle, upd, req, store, pool, published, captured,
                   used, hop, layer>>

\* The new-session callback of connection c, registered when the cache is
\* enabled: the session goes into the cache under the connection's key.
NewSession(c) ==
    /\ svc.kind = "tls_cache" /\ svc.enabled
    /\ c \in DOMAIN svc.conns
    /\ Len(svc.sessions) < MaxSessions
    /\ LET session == Len(svc.sessions) + 1
       IN svc' = [svc EXCEPT
                    !.sessions = Append(@, [conn |-> c, key |-> svc.conns[c].ex_data]),
                    !.cache = CacheInsert(@, svc.conns[c].ex_data, session)]
    /\ UNCHANGED <<scenario, cell, handle, upd, req, store, pool, published, captured,
                   used, hop, layer>>

(***************************************************************************)
(* Specifications.                                                         *)
(***************************************************************************)
InitEngine(client, jars) ==
    /\ cell = <<client>>
    /\ published = <<client>>
    /\ handle = <<[cell |-> 1, group |-> 1]>>
    /\ upd = <<>>
    /\ req = <<>>
    /\ store = jars
    /\ pool = [p \in PoolIds |-> {}]
    /\ captured = <<>>
    /\ used = <<>>
    /\ hop = <<>>
    /\ layer = <<>>

\* No component besides the engine takes part.
NoService == [kind |-> None]

InitCommon(client, jars) == InitEngine(client, jars) /\ svc = NoService

Jars(a, b) == [s \in StoreIds |-> [h \in Hosts |-> IF h = "a" THEN a ELSE b]]

RequestStep ==
    \/ \E h \in DOMAIN handle, input \in Inputs : Execute(h, input)
    \/ \E r \in DOMAIN req, resp \in Responses : PollResponse(r, resp)
    \/ \E r \in DOMAIN req, err \in Errors : PollError(r, err)

UpdateStep ==
    \/ \E h \in DOMAIN handle : Update(h)
    \/ \E u \in DOMAIN upd : UpdateCookieProvider(u, "jar2")
    \/ \E u \in DOMAIN upd : UpdateEmulation(u, ProfileB)
    \/ \E u \in DOMAIN upd : Apply(u)

\* Hot reconfiguration: a client built with profile A is updated while its
\* requests are in flight.
InitSwap ==
    /\ scenario = "swap"
    /\ InitCommon(Built("p0", ProfileA, "jar", PolicyLimited(1), TRUE, FALSE, <<>>),
                  Jars({"c1"}, {}))

\* The caller awaits each request before it issues the next one.
Idle == \A r \in DOMAIN req : req[r].st = "done"

NextSwap ==
    \/ \E h \in DOMAIN handle, input \in Inputs : Idle /\ Execute(h, input)
    \/ \E r \in DOMAIN req, resp \in Responses : PollResponse(r, resp)
    \/ \E r \in DOMAIN req, err \in Errors : PollError(r, err)
    \/ UpdateStep

SpecSwap == InitSwap /\ [][NextSwap]_vars

\* Clones of a client: Clone shares the state cell, cloned() copies it.
InitClone ==
    /\ scenario = "clone"
    /\ InitCommon(Built("p0", ProfileA, "jar", PolicyLimited(MaxRedirects), TRUE, FALSE, <<>>),
                  Jars({"c1"}, {}))

NextClone ==
    \/ RequestStep
    \/ \E h \in DOMAIN handle : Clone(h)
    \/ \E h \in DOMAIN handle : Cloned(h)
    \/ \E h \in DOMAIN handle : Update(h)
    \/ \E u \in DOMAIN upd : UpdateHeaders(u)
    \/ \E u \in DOMAIN upd : UpdateEmulation(u, ProfileB)
    \/ \E u \in DOMAIN upd : Apply(u)

SpecClone == InitClone /\ [][NextClone]_vars

\* The redirect engine: one request, every method and body kind.
InitRedirect ==
    /\ scenario = "redirect"
    /\ \E cs \in {None, "jar"} :
          InitCommon(Built("p0", ProfileA, cs, PolicyLimited(MaxRedirects), TRUE, FALSE, <<>>),
                     Jars({"c1"}, {}))

SpecRedirect == InitRedirect /\ [][RequestStep]_vars

\* Headers across redirects: sensitive headers, cookies, proxies.
InitHeaders ==
    /\ scenario = "headers"
    /\ \E cs \in {None, "jar"}, px \in {<<>>, <<ProxyHttpAuth>>}, a \in {{}, {"c1"}} :
          InitCommon(Built("p0", ProfileA, cs, PolicyLimited(MaxRedirects), TRUE, FALSE, px),
                     Jars(a, {"c2"}))

SpecHeaders == InitHeaders /\ [][RequestStep]_vars

\* Clients as the builder makes them: with and without redirect(), with
\* and without https_only.
InitBuilder ==
    /\ scenario = "builder"
    /\ \E ho \in BOOLEAN, pol \in {DefaultRedirectPolicy, PolicyLimited(MaxRedirects)} :
          InitCommon(Built("p0", ProfileA, None, pol, TRUE, ho, <<>>), Jars({}, {}))

SpecBuilder == InitBuilder /\ [][RequestStep]_vars

\* Retries: one request through PendingRequest, or one through the retry
\* middleware, with every kind of error.
InitRetry ==
    /\ scenario \in {"retry", "retry_layer"}
    /\ InitCommon(Built("p0", ProfileA, None, PolicyLimited(MaxRedirects), TRUE, FALSE, <<>>),
                  Jars({}, {}))

NextRetry ==
    \/ RequestStep
    \/ \E input \in Inputs : LayerCall(input)
    \/ \E i \in DOMAIN layer, result \in LayerResults : LayerResult(i, result)

SpecRetry == InitRetry /\ [][NextRetry]_vars

\* Timeouts: one request with and without a total and a read timeout,
\* set on the client or on the request, while time passes.
InitTimeout ==
    /\ scenario = "timeout"
    /\ \E total \in {NoTimeout, MaxTime}, read \in {NoTimeout, MaxTime} :
          InitCommon(WithTimeouts(Built("p0", ProfileA, None, PolicyLimited(MaxRedirects),
                                        TRUE, FALSE, <<>>), total, read),
                     Jars({}, {}))

NextTimeout ==
    \/ RequestStep
    \/ \E r \in DOMAIN req : PollTimeout(r)
    \/ \E r \in DOMAIN req : Tick(r)

SpecTimeout == InitTimeout /\ [][NextTimeout]_vars

\* Cookies: one request of a client with or without a cookie store, with
\* or without a Cookie of its own or among the default headers; responses
\* of every kind may set a cookie.
InitCookies ==
    /\ scenario = "cookies"
    /\ \E cs \in {None, "jar"}, profile \in {ProfileA, ProfileCookie}, a \in {{}, {"c1"}} :
          InitCommon(Built("p0", profile, cs, PolicyLimited(MaxRedirects), TRUE, FALSE, <<>>),
                     Jars(a, {}))

SpecCookies == InitCookies /\ [][RequestStep]_vars

\* Content negotiation: one request that may carry Accept-Encoding or
\* Range and may disallow compression, sent by clients with no, one or all
\* decoders enabled.
InitEncoding ==
    /\ scenario = "encoding"
    /\ \E profile \in {ProfileA, ProfileEncoding},
          a \in {AcceptsNone, Accepts(TRUE, FALSE, FALSE, FALSE), AcceptsDefault} :
          InitCommon(WithAccepts(Built("p0", profile, None, PolicyLimited(MaxRedirects),
                                       TRUE, FALSE, <<>>), a),
                     Jars({}, {}))

SpecEncoding == InitEncoding /\ [][RequestStep]_vars

\* The decompression middleware of clients with no, one or all decoders
\* enabled; requests with and without an override of their own.
AcceptsChoices == {AcceptsNone, Accepts(TRUE, FALSE, FALSE, FALSE), AcceptsDefault}

InitDecoder ==
    /\ scenario = "decoder"
    /\ InitEngine(NoClient, Jars({}, {}))
    /\ \E a \in AcceptsChoices :
          svc = [kind |-> "decompression", client |-> a, self |-> DecompressionNew(a),
                 calls |-> <<>>]

NextDecoder ==
    \/ \E own \in {NoOverride} \cup {Some(a) : a \in AcceptsChoices} : DecompressionCall(own)
    \/ \E i \in DOMAIN svc.calls, enc \in {"gzip", "br", "identity"} :
          DecompressionResponse(i, enc)

SpecDecoder == InitDecoder /\ [][NextDecoder]_vars

\* Errors: one request through PendingRequest with a total timeout, whose
\* exchanges fail, time out, get redirected too often or to a URL that is
\* not http(s), and whose inner request may fail to build; or one request
\* through the future of the service stack.
InitErrors ==
    \/ /\ scenario = "errors"
       /\ InitCommon(WithTimeouts(Built("p0", ProfileA, None, PolicyLimited(MaxRedirects),
                                        TRUE, FALSE, <<>>), MaxTime, NoTimeout),
                     Jars({}, {}))
    \/ /\ scenario = "facade"
       /\ InitEngine(NoClient, Jars({}, {}))
       /\ \E u \in {UrlA1, UrlHttpA1} :
             svc = [kind |-> "facade", st |-> "inflight", url |-> u,
                    polled |-> [kind |-> "pending", own |-> FALSE, url |-> NoUrl],
                    result |-> [kind |-> "pending", own |-> FALSE, url |-> NoUrl]]

NextErrors ==
    \/ RequestStep
    \/ \E r \in DOMAIN req : PollTimeout(r)
    \/ \E r \in DOMAIN req : Tick(r)
    \/ \E res \in FacadeResults : FacadePoll(res)

SpecErrors == InitErrors /\ [][NextErrors]_vars

\* Protocol upgrade: a GET with Connection: upgrade and an Upgrade header,
\* answered by 101 or otherwise; after a 101 both sides use the stream.
InitUpgrade ==
    /\ scenario = "upgrade"
    /\ svc = NoUpgrade
    /\ \E profile \in {ProfileA, ProfileConnection} :
          InitEngine(Built("p0", profile, None, PolicyLimited(MaxRedirects), TRUE, FALSE, <<>>),
                     Jars({}, {}))

NextUpgrade ==
    \/ RequestStep
    \/ \E r \in DOMAIN req : ResponseUpgrade(r)
    \/ \E b \in Bytes : ClientWrite(b)
    \/ ServerRead
    \/ \E b \in Bytes : ServerWrite(b)
    \/ ServerClose
    \/ ClientRead

SpecUpgrade == InitUpgrade /\ [][NextUpgrade]_vars

\* The proxy options of a builder: any sequence of proxy() and no_proxy()
\* calls, then build().
InitProxies ==
    /\ scenario = "proxies"
    /\ InitEngine(NoClient, Jars({}, {}))
    /\ svc = [kind |-> "builder", config |-> NewConfig, calls |-> <<>>,
              done |-> FALSE, built |-> NotBuilt]

NextProxies ==
    \/ \E p \in {ProxyHttpAuth, ProxyAll, BadProxy} : BuilderProxy(p)
    \/ BuilderNoProxy
    \/ BuilderBuild

SpecProxies == InitProxies /\ [][NextProxies]_vars

\* The connector with no proxy, an HTTP proxy, a SOCKS proxy before an
\* HTTP proxy, or an https-only proxy before a SOCKS proxy; destinations
\* are plain or https and may bring a proxy of their own.
InitConnector ==
    /\ scenario = "connector"
    /\ InitEngine(NoClient, Jars({}, {}))
    /\ \E proxies \in {<<>>, <<MatcherHttp>>, <<MatcherSocks, MatcherHttp>>,
                        <<MatcherHttpsOnly, MatcherSocks>>} :
          svc = [kind |-> "connector", proxies |-> proxies, conns |-> <<>>]

NextConnector ==
    \E dst \in {UrlHttpA1, UrlA1},
       own \in {NoIntercepted, Intercepted(MatcherHttp), Intercepted(MatcherSocks)},
       io \in {"ok", "err"} : ConnectorCall(dst, own, io)

SpecConnector == InitConnector /\ [][NextConnector]_vars

\* ALPN and TLS versions: a client built with profile A or the OkHttp
\* profile and with or without options of its own swaps emulations while
\* it dials connections.
InitAlpn ==
    /\ scenario = "alpn"
    /\ svc = [kind |-> "tls", hello |-> <<>>]
    /\ \E profile \in {ProfileA, ProfileOkHttp}, alpn \in {None, Http1, Http2},
          v \in {<<None, None>>, <<"1.3", "1.3">>} :
          InitEngine(WithTlsOptions(Built("p0", profile, None, PolicyNone, FALSE, FALSE, <<>>),
                                    alpn, v[1], v[2]),
                     Jars({}, {}))

NextAlpn ==
    \/ \E h \in DOMAIN handle : Update(h)
    \/ \E u \in DOMAIN upd, profile \in {ProfileC, ProfileOkHttp, ProfileHeadersOnly} :
          UpdateEmulation(u, profile)
    \/ \E u \in DOMAIN upd : Apply(u)
    \/ \E h \in DOMAIN handle : Handshake(h)

SpecAlpn == InitAlpn /\ [][NextAlpn]_vars

\* Updates of a client built with profile A, with or without TLS options
\* of its own: headers() and headers_order() before or after emulation(),
\* then apply.
InitEmulation ==
    /\ scenario = "emulation"
    /\ \E alpn \in {None, Http1}, v \in {<<None, None>>, <<"1.3", "1.3">>} :
          InitCommon(WithTlsOptions(Built("p0", ProfileA, None, PolicyNone, FALSE, FALSE, <<>>),
                                    alpn, v[1], v[2]),
                     Jars({}, {}))

NextEmulation ==
    \/ \E h \in DOMAIN handle : Update(h)
    \/ \E u \in DOMAIN upd : UpdateHeaders(u)
    \/ \E u \in DOMAIN upd : UpdateHeadersOrder(u, "order-U")
    \/ \E u \in DOMAIN upd, profile \in {ProfileC, ProfileOkHttp, ProfileHeadersOnly} :
          UpdateEmulation(u, profile)
    \/ \E u \in DOMAIN upd : Apply(u)

SpecEmulation == InitEmulation /\ [][NextEmulation]_vars

\* The session cache, enabled or not: connections to two hosts, with and
\* without a port in the URI, set up and handed sessions in any order.
InitSessions ==
    /\ scenario = "sessions"
    /\ InitEngine(NoClient, Jars({}, {}))
    /\ \E enabled \in BOOLEAN :
          svc = [kind |-> "tls_cache", enabled |-> enabled,
                 cache |-> [k \in SessionKeys |-> 0], conns |-> <<>>, sessions |-> <<>>]

NextSessions ==
    \/ \E h \in Hosts, port \in {NoPort, Some(DefaultTlsPort), Some(8443)} :
          SetupSsl(TlsUri(h, port))
    \/ \E c \in DOMAIN svc.conns : NewSession(c)

SpecSessions == InitSessions /\ [][NextSessions]_vars

\* Requests of clients with no proxy, one proxy, or two proxies that both
\* intercept the destination; a request may bring a proxy of its own and a
\* Proxy-Authorization header of its own.
InitProxied ==
    /\ scenario = "proxied"
    /\ \E px \in {<<>>, <<ProxyHttpAuth>>, <<ProxyHttpAuth, ProxyAllAuth>>,
                   <<ProxyAll, ProxyHttpAuth>>, <<ProxyAllAuth, ProxyAll>>} :
          InitCommon(Built("p0", ProfileA, None, PolicyLimited(MaxRedirects), TRUE, FALSE, px),
                     Jars({}, {}))

SpecProxied == InitProxied /\ [][RequestStep]_vars

\* Updates whose apply may fail to build the TLS connector of the new
\* profile, with requests executed before and after.
ApplyErrorClient == Built("p0", ProfileA, "jar", PolicyNone, FALSE, FALSE, <<>>)

InitApplyError ==
    /\ scenario = "apply_error"
    /\ InitCommon(ApplyErrorClient, Jars({}, {}))

\* The caller chains update().headers(..).headers_order(..).cookie_provider(..)
\* .local_address(..).proxies(..).emulation(..) and may call apply() after any
\* prefix of the chain.
NextApplyError ==
    \/ \E h \in DOMAIN handle : Update(h)
    \/ \E u \in DOMAIN upd : ~upd[u].emulation.some /\ UpdateHeaders(u)
    \/ \E u \in DOMAIN upd :
          /\ ContainsKey(upd[u].current.headers, "x-custom")
          /\ ~upd[u].emulation.some
          /\ UpdateHeadersOrder(u, "order-U")
    \/ \E u \in DOMAIN upd :
          /\ upd[u].current.headers_order = "order-U"
          /\ ~upd[u].emulation.some
          /\ UpdateCookieProvider(u, "jar2")
    \/ \E u \in DOMAIN upd :
          /\ upd[u].current.cookie_store = "jar2"
          /\ ~upd[u].emulation.some
          /\ UpdateLocalAddress(u, "addr-1")
    \/ \E u \in DOMAIN upd :
          /\ upd[u].current.network_scheme = "addr-1"
          /\ ~upd[u].emulation.some
          /\ UpdateProxies(u, <<ProxyHttpAuth>>)
    \/ \E u \in DOMAIN upd, profile \in {ProfileB, ProfileHeadersOnly} :
          ~upd[u].emulation.some /\ UpdateEmulation(u, profile)
    \/ \E u \in DOMAIN upd : Apply(u)
    \/ RequestStep

SpecApplyError == InitApplyError /\ [][NextApplyError]_vars

\* Connectors as the builder makes them, with no layers, an empty list of
\* layers, one or two layers, then handed new TLS connectors.
InitConnectorTls ==
    /\ scenario = "connector_tls"
    /\ InitEngine(NoClient, Jars({}, {}))
    /\ \E layers \in {NoLayers, Some(<<>>), Some(<<"layer1">>), Some(<<"layer1", "layer2">>)},
          timeout \in {NoTimeout, MaxTime}, nodelay \in BOOLEAN, tls_info \in BOOLEAN,
          verbose \in BOOLEAN, proxies \in {<<>>, <<MatcherSocks, MatcherHttp>>} :
          svc = [kind |-> "connector_tls", swaps |-> 0, tls_set |-> "A",
                 connector |->
                    ConnectorBuilderBuild(
                        BuilderVerbose(
                            BuilderTimeout(
                                ConnectorBuilderNew(HttpConnector(timeout), "A", proxies,
                                                    nodelay, tls_info),
                                timeout),
                            verbose),
                        layers)]

NextConnectorTls == \E tls \in {"B", "C"} : SetTlsConnector(tls)

SpecConnectorTls == InitConnectorTls /\ [][NextConnectorTls]_vars

Spec == SpecSwap

(***************************************************************************)
(* Properties.                                                             *)
(***************************************************************************)
TlsA == ProfileA.tls_config.v.id
TlsB == ProfileB.tls_config.v.id

\* C1: every step of a request (redirect hop, retry, cookie access, policy
\* and https_only checks, dispatch) reads the state that execute_request
\* captured, also when apply has published another state in between.
C1_CapturedStateOnly ==
    \A r \in DOMAIN req :
        /\ used[r] \subseteq captured[r]
        /\ req[r].sent > 0 =>
              \A c \in captured[r] :
                  /\ req[r].in_flight.hyper = c.hyper
                  /\ req[r].http2_max_retry_count = c.http2_max_retry_count

\* A redirect was followed after another state had been published.
C1_Witness ==
    \E r \in DOMAIN req :
        /\ hop[r].n >= 1 /\ hop[r].swapped
        /\ captured[r] # {} /\ used[r] = captured[r]
        /\ cell[req[r].via] \notin captured[r]

\* C2: an execute on a handle uses the state that the last apply on the
\* handle's cell published (the cell is shared by every Clone).
C2_ExecuteSeesPublished ==
    [][Len(req') = Len(req) + 1 =>
          LET r == Len(req')
          IN captured'[r] \subseteq {published[req'[r].via]}]_vars

\* A request executed through handle 2, a Clone, captured the state that an
\* update begun on handle 1 published.
C2_Witness ==
    \E r \in DOMAIN req, u \in DOMAIN upd :
        /\ upd[u].applied /\ upd[u].handle = 1 /\ req[r].by = 2
        /\ upd[u].cell = req[r].via
        /\ Derived(upd[u].current, upd[u].emulation) # upd[u].base
        /\ captured[r] = {Derived(upd[u].current, upd[u].emulation)}

\* C3: apply publishes as a compare-and-swap against the snapshot update()
\* read: an apply leaves in place every field that another apply changed
\* since that snapshot and that its own builder did not touch.
C3_NoLostUpdate ==
    [][\A u \in DOMAIN upd :
          (~upd[u].applied /\ upd'[u].applied) =>
              LET c == upd[u].cell
                  d == Derived(upd[u].current, upd[u].emulation)
              IN \A f \in DOMAIN cell[c] :
                    (d[f] = upd[u].base[f] /\ cell[c][f] # upd[u].base[f]) =>
                        cell'[c][f] = cell[c][f]]_vars

\* C4: a request that runs with profile B's state is never carried by a
\* connection that was established with profile A's TLS configuration.
C4_NoReuseAcrossSwap ==
    \A r \in DOMAIN req :
        (req[r].st = "inflight" /\ req[r].client.hyper.tls.id = TlsB) =>
            req[r].in_flight.conn.tls # TlsA

\* C5: all clients dispatch through one pool; an apply is seen through every
\* handle that is a Clone of the updated one, and through no handle on the
\* other side of a cloned().
C5_ClonedOwnCell ==
    [][/\ \A c \in DOMAIN cell' : cell'[c].hyper.pool = cell'[1].hyper.pool
       /\ \A u \in DOMAIN upd :
             (~upd[u].applied /\ upd'[u].applied) =>
                 \A h \in DOMAIN handle :
                     IF handle[h].group = handle[upd[u].handle].group
                     THEN cell'[handle[h].cell] = Derived(upd[u].current, upd[u].emulation)
                     ELSE cell'[handle[h].cell] = cell[handle[h].cell]]_vars

\* An update applied on one side of a cloned() changed that side only, and a
\* request ran on the other side with the unchanged state.
C5_Witness ==
    \E h1, h2 \in DOMAIN handle, u \in DOMAIN upd, r \in DOMAIN req :
        /\ handle[h1].group # handle[h2].group
        /\ upd[u].applied /\ handle[upd[u].handle].group = handle[h1].group
        /\ cell[handle[h1].cell] # cell[handle[h2].cell]
        /\ cell[handle[h1].cell].hyper.pool = cell[handle[h2].cell].hyper.pool
        /\ req[r].by = h2 /\ captured[r] = {cell[handle[h2].cell]}

\* C6: after a followed 301, 302 or 303 the next request has method GET
\* unless the redirected request was a GET or HEAD, which keeps its method;
\* it has an empty body and none of the four entity headers.
C6_SeeOtherBecomesGet ==
    \A r \in DOMAIN req :
        (hop[r].n >= 1 /\ hop[r].status \in {301, 302, 303}) =>
            LET nx == req[r].in_flight
                pv == hop[r].prev
            IN /\ nx.method = IF pv.method \in {"GET", "HEAD"} THEN pv.method ELSE "GET"
               /\ nx.body = "empty"
               /\ \A n \in EntityHeaders : nx.headers[n] = <<>>

\* A POST with a body and entity headers was redirected by a 302.
C6_Witness ==
    \E r \in DOMAIN req :
        /\ hop[r].n >= 1 /\ hop[r].status = 302
        /\ hop[r].prev.method = "POST" /\ hop[r].prev.body = "b1"
        /\ hop[r].prev.headers["content-type"] # <<>>
        /\ req[r].in_flight.method = "GET"

\* C7: a 307 or 308 answer to a request with a one-shot body is not
\* followed: nothing more is sent, the URL history stays as it was, and the
\* 3xx response is the successful result, whatever the policy.
C7_StreamBodyNotRedirected ==
    [][\A r \in DOMAIN req :
          (req[r].st = "inflight" /\ req[r].body = "stream") =>
              /\ ~(hop'[r].n > hop[r].n /\ hop'[r].status \in {307, 308})
              /\ (req'[r].st = "done" /\ req'[r].result.status \in {307, 308}) =>
                    /\ req'[r].result.kind = "ok"
                    /\ req'[r].result.url = req[r].url
                    /\ req'[r].urls = req[r].urls
                    /\ req'[r].sent = req[r].sent]_vars

\* A POST with a one-shot body got a 308 and the 308 is the result.
C7_Witness ==
    \E r \in DOMAIN req :
        /\ req[r].st = "done" /\ req[r].body = "stream" /\ req[r].method = "POST"
        /\ req[r].result.status = 308 /\ req[r].result.kind = "ok"
        /\ req[r].urls = <<>> /\ req[r].sent = 1

\* C8: after a followed 307 or 308 the next request has the method and the
\* body bytes of the redirected request, on every hop of a chain.
C8_TemporaryKeepsMethodAndBody ==
    \A r \in DOMAIN req :
        (hop[r].n >= 1 /\ hop[r].status \in {307, 308}) =>
            /\ req[r].in_flight.method = hop[r].prev.method
            /\ req[r].in_flight.body = hop[r].prev.body

\* A POST with in-memory bytes was redirected twice, last by a 307, and
\* still carries the bytes.
C8_Witness ==
    \E r \in DOMAIN req :
        /\ hop[r].n >= 2 /\ hop[r].status = 307
        /\ req[r].in_flight.method = "POST" /\ req[r].in_flight.body = "b1"

\* C9: after a followed redirect to another origin the next request has no
\* Authorization, Proxy-Authorization or WWW-Authenticate value, and its
\* Cookie values are the ones the cookie store returned for the new URL.
C9_CrossOriginStripsSensitive ==
    \A r \in DOMAIN req :
        (hop[r].n >= 1 /\ Origin(hop[r].prevUrl) # Origin(req[r].in_flight.uri)) =>
            LET nx == req[r].in_flight
            IN /\ nx.headers["authorization"] = <<>>
               /\ nx.headers["proxy-authorization"] = <<>>
               /\ nx.headers["www-authenticate"] = <<>>
               /\ nx.headers["cookie"] = hop[r].storeAns

\* A request that carried all four sensitive headers was redirected to
\* another host, for which the store holds a cookie.
C9_Witness ==
    \E r \in DOMAIN req :
        /\ hop[r].n >= 1 /\ hop[r].prevUrl.host # req[r].in_flight.uri.host
        /\ \A n \in SensitiveHeaders : hop[r].prev.headers[n] # <<>>
        /\ hop[r].storeAns # <<>>
        /\ req[r].in_flight.headers["cookie"] = hop[r].storeAns

\* C10: after a followed redirect with a cookie store attached, the Cookie
\* values of the next request are exactly the ones the store returned for
\* the new URL.
C10_CookiesFromStoreOnly ==
    \A r \in DOMAIN req :
        (hop[r].n >= 1 /\ hop[r].storeAsked) =>
            req[r].in_flight.headers["cookie"] = hop[r].storeAns

\* C11: a request sent to an http URL because of a redirect from an https
\* URL has no Referer, whatever earlier hops did; after every other followed
\* redirect with referer enabled its Referer is the previous URL without
\* credentials and fragment.
C11_RefererOnDowngrade ==
    \A r \in DOMAIN req :
        hop[r].n >= 1 =>
            LET nx == req[r].in_flight
                pv == hop[r].prevUrl
            IN IF nx.uri.scheme = "http" /\ pv.scheme = "https"
               THEN nx.headers["referer"] = <<>>
               ELSE req[r].client.referer =>
                      nx.headers["referer"] =
                          <<UrlStr([pv EXCEPT !.user = "", !.fragment = ""])>>

\* C12: a client built without redirect() follows a redirect while fewer
\* than ten hops were made, and fails with TooManyRedirects on the
\* eleventh.  (Every 3xx of the builder scenario names a usable Location.)
C12_DefaultFollowsTen ==
    \A r \in DOMAIN req :
        (/\ req[r].st = "done" /\ req[r].sent > 0
         /\ req[r].client.redirect = DefaultRedirectPolicy
         /\ req[r].redirect = PolicyUnset
         /\ ~req[r].client.https_only
         /\ req[r].result.status \in RedirectStatuses
         /\ req[r].result.target # NoTarget) =>
            /\ req[r].result.kind = "err"
            /\ req[r].result.err = "too_many_redirects"
            /\ Len(req[r].urls) = DefaultMaxHops + 1

C13_LimitedStops ==
    \A r \in DOMAIN req :
        (req[r].sent > 0 /\ req[r].client.redirect.kind = "limited"
         /\ req[r].redirect = PolicyUnset) =>
            LET max == req[r].client.redirect.max
            IN /\ hop[r].n <= max
               /\ req[r].sent <= max + 1 + req[r].http2_retry_count
               /\ (req[r].st = "done" /\ req[r].result.err = "too_many_redirects") =>
                     /\ hop[r].n = max
                     /\ Len(req[r].urls) = max + 1
                     /\ req[r].result.url = req[r].in_flight.uri

\* The server kept redirecting between hosts a and b; the request failed
\* after the allowed number of hops.
C13_Witness ==
    \E r \in DOMAIN req :
        /\ req[r].st = "done" /\ req[r].result.err = "too_many_redirects"
        /\ hop[r].n = MaxRedirects /\ MaxRedirects >= 2
        /\ req[r].urls[1].host = "a" /\ req[r].urls[2].host = "b"
        /\ req[r].urls[Len(req[r].urls)].host = "a"
        /\ req[r].result.url = req[r].urls[Len(req[r].urls)]

\* C14: without errors one exchange is issued per hop, and the url() of the
\* final Response is the Location of the last followed redirect resolved
\* against the URL of the request that received it.
C14_OneExchangePerHop ==
    \A r \in DOMAIN req :
        (req[r].sent > 0 /\ req[r].http2_retry_count = 0 /\ req[r].result.kind # "err") =>
            /\ req[r].sent = hop[r].n + 1
            /\ (req[r].st = "done" /\ hop[r].n >= 1) =>
                  req[r].result.url =
                      IF hop[r].location.kind = "abs"
                      THEN hop[r].location.url
                      ELSE [hop[r].prevUrl EXCEPT !.path = hop[r].location.path]

\* A POST with in-memory bytes went from host a to host b and then to a
\* path on host b given by a relative Location; the response is from there.
C14_Witness ==
    \E r \in DOMAIN req :
        /\ req[r].st = "done" /\ req[r].result.kind = "ok" /\ req[r].result.status = 200
        /\ hop[r].n = 2 /\ req[r].sent = 3
        /\ hop[r].location.kind = "rel" /\ hop[r].prevUrl = UrlB1
        /\ req[r].result.url = Url("https", "b", 443, "/2")

RetryableKinds == {"h2_goaway_remote_no_error", "h2_reset_remote_refused_stream"}

\* C16: the retries of one request never exceed the configured maximum,
\* however often it fails with a retryable error and however many hops it
\* makes.
C16_RetriesBounded ==
    /\ \A r \in DOMAIN req :
          /\ req[r].http2_retry_count <= req[r].http2_max_retry_count
          /\ req[r].sent <= 1 + hop[r].n + req[r].http2_max_retry_count
    /\ \A i \in DOMAIN layer : layer[i].retries <= layer[i].max

\* C17: only a remote GOAWAY with NO_ERROR and a remote RST_STREAM with
\* REFUSED_STREAM are ever answered by a retry.
C17_OnlyRetryableRetried ==
    /\ \A r \in DOMAIN req : req[r].retried \subseteq RetryableKinds
    /\ \A i \in DOMAIN layer : layer[i].retried \subseteq RetryableKinds

C19_ExpiryIsTimedOut ==
    [][\A r \in DOMAIN req :
          (/\ req[r].st = "inflight"
           /\ (req[r].total_timeout = 0 \/ req[r].read_timeout_fut = 0)
           /\ req'[r] # req[r]) =>
              /\ req'[r].st = "done"
              /\ req'[r].result.kind = "err"
              /\ req'[r].result.err = "timed_out"
              /\ req'[r].result.url = req[r].url
              /\ req'[r].sent = req[r].sent
              /\ req'[r].in_flight = req[r].in_flight]_vars

\* A request timed out on its read timeout while the total timeout had
\* time left.
C19_Witness ==
    \E r \in DOMAIN req :
        /\ req[r].st = "done" /\ req[r].result.err = "timed_out"
        /\ req[r].read_timeout_fut = 0 /\ req[r].total_timeout > 0
        /\ req[r].result.url = req[r].url

\* C20: the total timer is armed at execute and only runs down: at every
\* moment it equals the timeout minus the time since execute, across
\* redirects and retries, and the Response gets what is left of it.
C20_TotalDeadlineArmedOnce ==
    \A r \in DOMAIN req :
        (req[r].sent > 0 /\ req[r].armed # NoTimeout) =>
            /\ req[r].total_timeout = req[r].armed - req[r].elapsed
            /\ req[r].total_timeout >= 0
            /\ (req[r].st = "done" /\ req[r].result.kind = "ok") =>
                  /\ req[r].response_deadline = req[r].armed - req[r].elapsed
                  /\ req[r].response_deadline > 0
            /\ (req[r].st = "done" /\ req[r].result.kind = "err") =>
                  req[r].response_deadline = NoTimeout

\* A request timed out after a followed redirect: the exchange in flight
\* had run for less than the total timeout, the request as a whole for all
\* of it.
C20_Witness ==
    \E r \in DOMAIN req :
        /\ req[r].armed = MaxTime /\ req[r].elapsed = MaxTime
        /\ hop[r].n >= 1
        /\ req[r].elapsed - req[r].dispatched_at < req[r].armed
        /\ req[r].st = "done" /\ req[r].result.err = "timed_out"

C22_FirstHopCookies ==
    [][Len(req') = Len(req) + 1 =>
          LET r == Len(req')
              c == req'[r].client
              given == req'[r].given.headers["cookie"]
              merged == IF given # <<>> THEN given ELSE c.headers["cookie"]
          IN /\ store' = store
             /\ req'[r].sent = 1 =>
                   req'[r].in_flight.headers["cookie"] =
                       IF c.cookie_store # None /\ merged = <<>>
                       THEN SelectSeq(CookieOrder,
                                LAMBDA k : k \in store[c.cookie_store][req'[r].url.host])
                       ELSE merged]_vars

\* A request that brought its own Cookie was sent with just that value by a
\* client whose store holds a cookie for the host.
C22_Witness ==
    \E r \in DOMAIN req :
        /\ req[r].st = "inflight" /\ hop[r].n = 0
        /\ req[r].client.cookie_store # None
        /\ store[req[r].client.cookie_store][req[r].url.host] # {}
        /\ req[r].given.headers["cookie"] = <<"u">>
        /\ req[r].in_flight.headers["cookie"] = <<"u">>

\* C23: when an exchange ends, the store of the client gains the cookies of
\* the response's Set-Cookie under the host of the request that was
\* answered, whatever the status, and changes in no other case; after a
\* followed redirect the next request carries every cookie the store then
\* holds for its host, the ones just set included.
C23_SetCookieBeforeNextHop ==
    [][\A r \in DOMAIN req :
          req'[r].received.n > req[r].received.n =>
              LET c == req[r].client
                  got == req'[r].received
                  cs == c.cookie_store
                  next == req'[r].in_flight
              IN /\ IF cs # None /\ got.kind = "response" /\ got.set_cookie # <<>>
                    THEN store' = [store EXCEPT ![cs][req[r].in_flight.uri.host] =
                                       @ \cup {got.set_cookie[i] : i \in DOMAIN got.set_cookie}]
                    ELSE store' = store
                 /\ (hop'[r].n > hop[r].n /\ cs # None) =>
                       \A k \in store'[cs][next.uri.host] :
                           \E i \in DOMAIN next.headers["cookie"] :
                               next.headers["cookie"][i] = k]_vars

\* A 302 from host a set cookie c2, which the store did not hold, and the
\* request that followed it to another path of host a carries c2.
C23_Witness ==
    \E r \in DOMAIN req :
        /\ hop[r].n = 1 /\ req[r].st = "inflight"
        /\ req[r].received.set_cookie = <<"c2">>
        /\ hop[r].prev.headers["cookie"] = <<>>
        /\ req[r].in_flight.uri = UrlA2
        /\ req[r].in_flight.headers["cookie"] = <<"c2">>

\* C24: the first request gets an Accept-Encoding added exactly when the
\* client has a decoder enabled, compression is allowed for the request,
\* and its headers (the caller's, completed by the default headers) have
\* neither Accept-Encoding nor Range; otherwise its Accept-Encoding values
\* are the ones it came with.
C24_AcceptEncodingInserted ==
    \A r \in DOMAIN req :
        (req[r].sent > 0 /\ hop[r].n = 0) =>
            LET c == req[r].client
                given == req[r].given
                Merged(n) == IF given.headers[n] # <<>> THEN given.headers[n] ELSE c.headers[n]
                enabled == c.accepts.gzip \/ c.accepts.brotli \/ c.accepts.zstd
                           \/ c.accepts.deflate
                sent == req[r].in_flight.headers["accept-encoding"]
            IN IF /\ enabled /\ given.allow_compression
                  /\ Merged("accept-encoding") = <<>> /\ Merged("range") = <<>>
               THEN Len(sent) = 1 /\ sent # <<"u">> /\ sent # <<"profile">>
               ELSE sent = Merged("accept-encoding")

\* A request with a Range header and no Accept-Encoding was sent as it
\* came by a client with every decoder enabled.
C24_Witness ==
    \E r \in DOMAIN req :
        /\ req[r].sent > 0 /\ hop[r].n = 0
        /\ req[r].client.accepts = AcceptsDefault
        /\ req[r].given.allow_compression
        /\ req[r].given.headers["range"] # <<>>
        /\ req[r].given.headers["accept-encoding"] = <<>>
        /\ req[r].client.headers["accept-encoding"] = <<>>
        /\ req[r].in_flight.headers["accept-encoding"] = <<>>
        /\ req[r].in_flight.headers["range"] = <<"u">>

\* The encodings a set of enabled decoders stands for.
EncodingsOf(a) ==
    {e \in Encodings : (e = "gzip" /\ a.gzip) \/ (e = "deflate" /\ a.deflate)
                       \/ (e = "br" /\ a.brotli) \/ (e = "zstd" /\ a.zstd)}

\* C25: a request with an accept-encoding override is sent through a
\* decoder that advertises the encodings of the override, and its response
\* is decoded exactly when its Content-Encoding is one of them; a request
\* without override gets the client's set.
C25_OverrideUsed ==
    svc.kind = "decompression" =>
        \A i \in DOMAIN svc.calls :
            LET call == svc.calls[i]
                want == IF call.own.some THEN EncodingsOf(call.own.v)
                        ELSE EncodingsOf(svc.client)
            IN /\ call.accept = want
               /\ call.content_encoding # None =>
                     (call.decoded <=> call.content_encoding \in want)

\* C26: every error a request ends with carries a URL, whether it comes
\* from the transport, a timer, the redirect handling or the building of
\* the inner request; an error that reaches the future of the service
\* stack with a URL keeps it, one without gets the URL of the request.
C26_ErrorsCarryUrl ==
    /\ \A r \in DOMAIN req :
          (req[r].st = "done" /\ req[r].result.kind = "err") =>
              req[r].result.url # NoUrl
    /\ (svc.kind = "facade" /\ svc.st = "done" /\ svc.result.kind = "err") =>
          svc.result.url = IF svc.polled.own /\ svc.polled.url # NoUrl
                           THEN svc.polled.url ELSE svc.url

\* s is an initial part of t.
IsPrefix(s, t) == Len(s) <= Len(t) /\ \A i \in DOMAIN s : s[i] = t[i]

LastNoProxy(calls) ==
    IF \E i \in DOMAIN calls : calls[i].op = "no_proxy"
    THEN CHOOSE i \in DOMAIN calls :
            /\ calls[i].op = "no_proxy"
            /\ \A j \in DOMAIN calls : calls[j].op = "no_proxy" => j <= i
    ELSE 0

\* The arguments of the proxy() calls after position n, in call order.
RECURSIVE ProxiesAfter(_, _)
ProxiesAfter(calls, n) ==
    IF n >= Len(calls) THEN <<>>
    ELSE IF calls[n + 1].op = "proxy"
         THEN <<calls[n + 1].arg>> \o ProxiesAfter(calls, n + 1)
         ELSE ProxiesAfter(calls, n + 1)

\* C28: build fails if a proxy() call failed; otherwise the client has the
\* system proxy exactly when the builder saw neither proxy() nor
\* no_proxy(), the explicit proxies of the client are the arguments of the
\* proxy() calls after the last no_proxy(), in call order, and the system
\* proxy, if present, comes after them.
C28_SystemProxy ==
    (svc.kind = "builder" /\ svc.done) =>
        LET calls == svc.calls
            failed == \E i \in DOMAIN calls : calls[i].op = "proxy" /\ calls[i].arg = BadProxy
            explicit == ProxiesAfter(calls, LastNoProxy(calls))
            system == calls = <<>>
        IN IF failed THEN ~svc.built.ok
           ELSE /\ svc.built.ok
                /\ svc.built.proxies = IF system THEN explicit \o <<ProxySystem>>
                                        ELSE explicit

\* A builder was given a proxy, then no_proxy(), then another proxy: the
\* client has just the last one and no system proxy.
C28_Witness ==
    /\ svc.kind = "builder" /\ svc.done /\ svc.built.ok
    /\ Len(svc.calls) = 3
    /\ svc.calls[1] = [op |-> "proxy", arg |-> ProxyHttpAuth]
    /\ svc.calls[2].op = "no_proxy"
    /\ svc.calls[3] = [op |-> "proxy", arg |-> ProxyAll]
    /\ svc.built.proxies = <<ProxyAll>>

\* The proxy a recorded call of the connector went through, or none.
ProxyOfCall(c) == IF c.own.some THEN c.own ELSE FirstIntercepted(svc.proxies, c.dst, 1)

\* C29: a returned connection has is_proxy exactly when it goes through an
\* HTTP proxy to a plain-http destination.  A direct connection, a SOCKS
\* connection and a tunnel are not marked; for an https destination behind
\* an HTTP proxy the connection is a tunnel with TLS to the destination,
\* whose CONNECT request carries the proxy's basic auth and custom headers,
\* and no other connection sends a CONNECT request.
C29_IsProxy ==
    svc.kind = "connector" =>
        \A i \in DOMAIN svc.conns :
            LET c == svc.conns[i]
                prx == ProxyOfCall(c)
                httpProxy == prx.some /\ prx.scheme \notin SocksSchemes
            IN c.ok =>
                /\ c.conn.is_proxy <=> (httpProxy /\ c.dst.scheme = "http")
                /\ ~prx.some => c.conn.via = "direct"
                /\ (prx.some /\ ~httpProxy) => c.conn.via = "socks"
                /\ (httpProxy /\ c.dst.scheme = "https") =>
                      /\ c.conn.via = "tunnel"
                      /\ c.conn.tls = "target"
                      /\ c.conn.connect = [sent |-> TRUE, auth |-> prx.basic_auth,
                                           headers |-> prx.custom_headers]
                /\ c.conn.via # "tunnel" => ~c.conn.connect.sent

\* One connector returned a marked connection to a plain destination
\* through its HTTP proxy and a tunnel, with auth and headers on CONNECT,
\* to an https destination.
C29_Witness ==
    /\ svc.kind = "connector" /\ Len(svc.conns) = 2
    /\ svc.conns[1].ok /\ svc.conns[1].dst = UrlHttpA1 /\ svc.conns[1].conn.is_proxy
    /\ svc.conns[2].ok /\ svc.conns[2].dst = UrlA1 /\ svc.conns[2].conn.via = "tunnel"
    /\ svc.conns[2].conn.connect.auth /\ svc.conns[2].conn.connect.headers
    /\ ~svc.conns[2].conn.is_proxy

\* The TLS configuration the profile named id brings.
ProfileTls(id) ==
    (CHOOSE profile \in {ProfileA, ProfileC, ProfileOkHttp} :
        profile.tls_config.v.id = id).tls_config.v

AppliedNow(u) ==
    u \in DOMAIN upd /\ ~upd[u].applied /\ upd'[u].applied /\ ~upd'[u].failed

\* What apply publishes for the parts other than the TLS configuration: the
\* profile's value where it supplies one, the update's own value elsewhere.
ProfileOverEdits(u) ==
    LET e == upd[u].emulation.v
        edits == upd[u].current
        pub == cell'[upd[u].cell]
    IN /\ pub.headers = IF e.default_headers.some THEN e.default_headers.v ELSE edits.headers
       /\ pub.headers_order = IF e.headers_order # None THEN e.headers_order
                              ELSE edits.headers_order
       /\ pub.hyper.http1 = IF e.http1_config # None THEN e.http1_config ELSE edits.hyper.http1
       /\ pub.hyper.http2 = IF e.http2_config # None THEN e.http2_config ELSE edits.hyper.http2
       /\ ~e.tls_config.some => pub.hyper.tls = edits.hyper.tls

HostPort(uri) == <<uri.host, IF uri.port.some THEN uri.port.v ELSE 443>>

\* C32: every session is stored under the (host, port) of the connection
\* that negotiated it; a session offered for resumption on a connection was
\* stored under that connection's (host, port); and the cache holds, for
\* every key, the last session inserted under it.  A disabled cache stores
\* and offers nothing.
C32_SessionCacheKeyed ==
    svc.kind = "tls_cache" =>
        /\ \A i \in DOMAIN svc.sessions :
              <<svc.sessions[i].key.host, svc.sessions[i].key.port>> =
                  HostPort(svc.conns[svc.sessions[i].conn].uri)
        /\ \A c \in DOMAIN svc.conns :
              svc.conns[c].set_session # 0 =>
                  /\ svc.conns[c].set_session \in DOMAIN svc.sessions
                  /\ <<svc.sessions[svc.conns[c].set_session].key.host,
                       svc.sessions[svc.conns[c].set_session].key.port>> =
                         HostPort(svc.conns[c].uri)
        /\ \A k \in SessionKeys :
              LET written == {i \in DOMAIN svc.sessions : svc.sessions[i].key = k}
              IN svc.cache[k] = IF written = {} THEN 0
                                ELSE CHOOSE i \in written : \A j \in written : j <= i
        /\ ~svc.enabled => svc.sessions = <<>>

\* A connection to a host without a port in the URI resumed the session
\* that a connection to the same host with port 443 spelled out was handed
\* last, after an earlier session of the same key and one of another host.
C32_Witness ==
    /\ svc.kind = "tls_cache" /\ Len(svc.sessions) = 3 /\ Len(svc.conns) = 3
    /\ svc.conns[1].uri = TlsUri("a", Some(443))
    /\ svc.conns[2].uri = TlsUri("b", NoPort)
    /\ svc.conns[3].uri = TlsUri("a", NoPort)
    /\ svc.sessions[1].conn = 1 /\ svc.sessions[2].conn = 2 /\ svc.sessions[3].conn = 1
    /\ svc.conns[3].set_session = 3

\* C33: a dispatched request that brought no network scheme of its own goes
\* through the first proxy of the client's list that intercepts its URL, or
\* direct when none does; a request that brought a proxy goes through that.
C33_FirstProxyUsed ==
    \A r \in DOMAIN req :
        req[r].sent >= 1 =>
            LET proxies == req[r].client.proxies
                first == {i \in DOMAIN proxies :
                            /\ ProxyIsMatch(proxies[i], req[r].given.url)
                            /\ \A j \in 1..(i - 1) :
                                  ~ProxyIsMatch(proxies[j], req[r].given.url)}
            IN IF req[r].given.network_scheme # None
               THEN req[r].network_scheme = req[r].given.network_scheme
               ELSE IF first = {} THEN req[r].network_scheme = None
               ELSE \A i \in first : req[r].network_scheme = proxies[i].id

\* C34: in every exchange of a request, the headers sent hold a
\* Proxy-Authorization that the caller did not supply only when both the
\* request's URL and the exchange's destination are plain http; an https
\* destination never gets the proxy credentials of the client; and a value
\* the caller supplied is sent as it is on the first exchange and is never
\* replaced by another value afterwards.
C34_ProxyAuthorization ==
    \A r \in DOMAIN req :
        req[r].sent >= 1 =>
            LET own == req[r].given.headers["proxy-authorization"]
                sent == req[r].in_flight.headers["proxy-authorization"]
            IN /\ (own = <<>> /\ sent # <<>>) =>
                     (req[r].given.url.scheme = "http" /\ req[r].in_flight.uri.scheme = "http")
               /\ (own = <<>> /\ req[r].in_flight.uri.scheme = "https") => sent = <<>>
               /\ own # <<>> => sent \in {own, <<>>}
               /\ (own # <<>> /\ req[r].urls = <<>>) => sent = own

\* A plain-http request without a Proxy-Authorization of its own is in
\* flight with the credentials of the client's http proxy.
C34_Witness ==
    \E r \in DOMAIN req :
        /\ req[r].st = "inflight" /\ req[r].urls = <<>>
        /\ req[r].given.url = UrlHttpA1
        /\ req[r].given.headers["proxy-authorization"] = <<>>
        /\ req[r].in_flight.uri = UrlHttpA1
        /\ req[r].in_flight.headers["proxy-authorization"] = <<"px-http">>

\* C37: when the first exchange of a plain-http request carries proxy
\* credentials that the caller did not supply, they are the credentials of
\* the proxy the request is dispatched through.
C37_AuthOfSelectedProxy ==
    \A r \in DOMAIN req :
        (/\ req[r].sent >= 1 /\ req[r].urls = <<>>
         /\ req[r].given.url.scheme = "http"
         /\ req[r].given.headers["proxy-authorization"] = <<>>
         /\ req[r].in_flight.headers["proxy-authorization"] # <<>>) =>
            req[r].in_flight.headers["proxy-authorization"] = <<req[r].network_scheme>>

\* C35: setting a TLS connector leaves the connector in its variant with
\* the same layers in the same order, the same HTTP connector, proxies,
\* nodelay, tls_info, timeout and verbose flag, and the same timeout layer;
\* only the TLS connector changes, in the base service and in the service
\* that the layers wrap.
C35_OnlyTlsChanges ==
    [][(svc.kind = "connector_tls" /\ svc'.swaps = svc.swaps + 1) =>
          LET old == svc.connector
              new == svc'.connector
          IN /\ new.variant = old.variant
             /\ new.layers = old.layers
             /\ new.service.stack = old.service.stack
             /\ new.service.timeout_layer = old.service.timeout_layer
             /\ new.base_service = [old.base_service EXCEPT !.tls = svc'.tls_set]
             /\ new.service.inner = [old.service.inner EXCEPT !.tls = svc'.tls_set]]_vars

\* A connector with two layers, a timeout and proxies was handed two TLS
\* connectors and still has its layers, in order, around the last one.
C35_Witness ==
    /\ svc.kind = "connector_tls" /\ svc.swaps = 2 /\ svc.tls_set = "C"
    /\ svc.connector.variant = "WithLayers"
    /\ svc.connector.layers = <<"layer1", "layer2">>
    /\ svc.connector.service.stack = <<"layer1", "layer2">>
    /\ svc.connector.service.timeout_layer = MaxTime
    /\ svc.connector.service.inner.tls = "C"
    /\ svc.connector.base_service.proxies = <<MatcherSocks, MatcherHttp>>

(***************************************************************************)
(* A failed apply publishes nothing.                                       *)
(***************************************************************************)
\* The update u reaches the end of apply with an error in this step.
FailedNow(u) == u \in DOMAIN upd /\ ~upd[u].applied /\ upd'[u].failed

\* The client state an execute of this step captured, if the step is one.
ExecutedNow == Len(req') > Len(req) /\ req'[Len(req')].client # NoClient

\* C36: when ClientUpdate::apply fails because the TLS connector of the new
\* profile cannot be built, the step changes no published client state, and
\* an execute at any time captures the state the cell holds, so the edits of
\* a failed update (headers, header order, proxies, local address, cookie
\* store, HTTP/1 and HTTP/2 configuration) are in no request unless another
\* update published them.
C36_FailedApplyPublishesNothing ==
    [][ /\ \A u \in DOMAIN upd :
             FailedNow(u) => (cell' = cell /\ published' = published)
        /\ ExecutedNow =>
             \E h \in DOMAIN handle : req'[Len(req')].client = cell[handle[h].cell]
        /\ (\A u \in DOMAIN upd' : upd'[u].applied => upd'[u].failed) =>
             \A c \in DOMAIN cell' : cell'[c] = ApplyErrorClient
      ]_vars

\* An update that edited the headers, the header order, the proxies, the
\* local address and the cookie store and took a profile has failed, and a
\* request executed next carries the state the client was built with.
C36_Witness ==
    \E u \in DOMAIN upd, r \in DOMAIN req :
        /\ upd[u].failed
        /\ upd[u].emulation = Some(ProfileB)
        /\ ContainsKey(upd[u].current.headers, "x-custom")
        /\ upd[u].current.headers_order = "order-U"
        /\ upd[u].current.proxies = <<ProxyHttpAuth>>
        /\ upd[u].current.network_scheme = "addr-1"
        /\ upd[u].current.cookie_store = "jar2"
        /\ req[r].client = ApplyErrorClient
        /\ req[r].client.hyper.http2 = "h2-A"
        /\ cell[upd[u].cell] = ApplyErrorClient

(***************************************************************************)
(* NetworkScheme and its constructions (util/client/scheme.rs).            *)
(***************************************************************************)
MaxSchemes == 2      \* network schemes constructed and resolved per behaviour

\* Option<IpAddr>
NoIp == [kind |-> "none", addr |-> None]
IpV4(a) == [kind |-> "v4", addr |-> a]
IpV6(a) == [kind |-> "v6", addr |-> a]

\* enum NetworkScheme { Scheme { interface, addresses, proxy_scheme }, Default }
NetworkSchemeScheme(interface, addresses, proxy_scheme) ==
    [variant |-> "Scheme", interface |-> interface, addresses |-> addresses,
     proxy_scheme |-> proxy_scheme]
NetworkSchemeDefault ==
    [variant |-> "Default", interface |-> None, addresses |-> <<None, None>>,
     proxy_scheme |-> None]

\* NetworkScheme::builder(): NetworkSchemeBuilder::default()
NetworkSchemeBuilder ==
    [interface |-> None, addresses |-> <<None, None>>, proxy_scheme |-> None]

\* NetworkSchemeBuilder::address
SchemeBuilderAddress(b, addr) ==
    [b EXCEPT !.addresses = CASE addr.kind = "v4" -> <<addr.addr, None>>
                              [] addr.kind = "v6" -> <<None, addr.addr>>
                              [] OTHER -> <<None, None>>]
\* NetworkSchemeBuilder::addresses
SchemeBuilderAddresses(b, ipv4, ipv6) == [b EXCEPT !.addresses = <<ipv4, ipv6>>]
\* NetworkSchemeBuilder::interface
SchemeBuilderInterface(b, interface) == [b EXCEPT !.interface = interface]
\* NetworkSchemeBuilder::proxy_scheme
SchemeBuilderProxyScheme(b, ps) == [b EXCEPT !.proxy_scheme = ps]

\* NetworkSchemeBuilder::build: Default when nothing is set.
SchemeBuilderBuild(b) ==
    IF b.proxy_scheme = None /\ b.addresses = <<None, None>> /\ b.interface = None
    THEN NetworkSchemeDefault
    ELSE NetworkSchemeScheme(b.interface, b.addresses, b.proxy_scheme)

\* impl From<Option<IpAddr>> for NetworkScheme: the variant Scheme is
\* written out, whatever the value.
FromOptionIpAddr(value) ==
    NetworkSchemeScheme(None,
                        CASE value.kind = "v4" -> <<value.addr, None>>
                          [] value.kind = "v6" -> <<None, value.addr>>
                          [] OTHER -> <<None, None>>,
                        None)
\* impl From<(Option<Ipv4Addr>, Option<Ipv6Addr>)> for NetworkScheme
FromAddresses(v4, v6) ==
    SchemeBuilderBuild(SchemeBuilderAddresses(NetworkSchemeBuilder, v4, v6))
\* impl From<ProxyScheme> for NetworkScheme
FromProxyScheme(value) ==
    SchemeBuilderBuild(SchemeBuilderProxyScheme(NetworkSchemeBuilder, value))
\* impl From<String> and From<&'static str> for NetworkScheme
FromInterface(value) ==
    SchemeBuilderBuild(SchemeBuilderInterface(NetworkSchemeBuilder, value))

\* ClientRef::network_scheme(uri, default) on the enum: a Default from the
\* request is replaced by the client's builder with the proxy scheme of the
\* intercepting proxies put on it; anything else is returned as it is.
RECURSIVE InterceptAll(_, _, _, _)
InterceptAll(b, proxies, uri, i) ==
    IF i > Len(proxies) THEN b
    ELSE LET ps == ProxyIntercept(proxies[i], uri)
         IN InterceptAll(IF ps # None THEN SchemeBuilderProxyScheme(b, ps) ELSE b,
                         proxies, uri, i + 1)

ClientRefNetworkScheme(client, uri, default) ==
    IF default.variant = "Default"
    THEN SchemeBuilderBuild(InterceptAll(client.network_scheme, client.proxies, uri, 1))
    ELSE default

\* A request is given the network scheme `made`, constructed by `how` from
\* arguments of which `set` says whether any carries a setting, and the
\* client resolves it for the destination.
Resolve(how, set, made, uri) ==
    /\ svc.kind = "scheme"
    /\ Len(svc.resolved) < MaxSchemes
    /\ svc' = [svc EXCEPT !.resolved = Append(@,
                  [how |-> how, set |-> set, given |-> made, uri |-> uri,
                   scheme |-> ClientRefNetworkScheme(svc.client, uri, made)])]
    /\ UNCHANGED <<scenario, cell, handle, upd, req, store, pool, published, captured,
                   used, hop, layer>>

SchemeUris == {UrlA1, UrlHttpA1}

ResolveBuilt ==
    \E interface \in {None, "eth1"}, v4 \in {None, "10.0.0.2"},
       ps \in {None, "px-own"}, uri \in SchemeUris :
       Resolve("builder",
               interface # None \/ v4 # None \/ ps # None,
               SchemeBuilderBuild(
                   SchemeBuilderProxyScheme(
                       SchemeBuilderAddresses(
                           IF interface # None
                           THEN SchemeBuilderInterface(NetworkSchemeBuilder, interface)
                           ELSE NetworkSchemeBuilder,
                           v4, None),
                       ps)),
               uri)

ResolveFromOptionIpAddr ==
    \E value \in {NoIp, IpV4("10.0.0.2"), IpV6("::2")}, uri \in SchemeUris :
       Resolve("from_option_ip_addr", value # NoIp, FromOptionIpAddr(value), uri)

ResolveFromAddresses ==
    \E v4 \in {None, "10.0.0.2"}, v6 \in {None, "::2"}, uri \in SchemeUris :
       Resolve("from_addresses", v4 # None \/ v6 # None, FromAddresses(v4, v6), uri)

ResolveFromProxyScheme ==
    \E uri \in SchemeUris :
       Resolve("from_proxy_scheme", TRUE, FromProxyScheme("px-own"), uri)

ResolveFromInterface ==
    \E uri \in SchemeUris :
       Resolve("from_interface", TRUE, FromInterface("eth1"), uri)

\* Clients with and without a bind address, an interface and proxies.
InitScheme ==
    /\ scenario = "scheme"
    /\ InitEngine(NoClient, Jars({}, {}))
    /\ \E addr \in {NoIp, IpV4("10.0.0.1")}, interface \in {None, "eth0"},
          px \in {<<>>, <<ProxyAll>>} :
          svc = [kind |-> "scheme",
                 client |-> [network_scheme |->
                                SchemeBuilderAddress(
                                    IF interface # None
                                    THEN SchemeBuilderInterface(NetworkSchemeBuilder,
                                                                interface)
                                    ELSE NetworkSchemeBuilder,
                                    addr),
                             proxies |-> px],
                 resolved |-> <<>>]

NextScheme ==
    \/ ResolveBuilt
    \/ ResolveFromOptionIpAddr
    \/ ResolveFromAddresses
    \/ ResolveFromProxyScheme
    \/ ResolveFromInterface

SpecScheme == InitScheme /\ [][NextScheme]_vars

\* What the client alone gives a destination: its bind address, interface
\* and the proxy that intercepts.
ClientLevel(uri) == ClientRefNetworkScheme(svc.client, uri, NetworkSchemeDefault)

\* C38: every construction of a NetworkScheme from arguments that set no
\* interface, no local address and no proxy yields the variant Default, and
\* the request given it is dispatched with the client-level bind address,
\* interface and proxy.
C38_UnsetIsDefault ==
    svc.kind = "scheme" =>
        \A i \in DOMAIN svc.resolved :
            ~svc.resolved[i].set =>
                /\ svc.resolved[i].given = NetworkSchemeDefault
                /\ svc.resolved[i].scheme = ClientLevel(svc.resolved[i].uri)

\* The same for every construction but From<Option<IpAddr>>.
C38_UnsetIsDefaultButFromOptionIpAddr ==
    svc.kind = "scheme" =>
        \A i \in DOMAIN svc.resolved :
            (~svc.resolved[i].set /\ svc.resolved[i].how # "from_option_ip_addr") =>
                /\ svc.resolved[i].given = NetworkSchemeDefault
                /\ svc.resolved[i].scheme = ClientLevel(svc.resolved[i].uri)

\* A client with a bind address and a proxy for the destination resolves
\* the scheme made from None::<IpAddr> to one with neither.
C38_FromNoneLosesClientLevel ==
    svc.kind = "scheme" /\
    \E i \in DOMAIN svc.resolved :
        /\ svc.resolved[i].how = "from_option_ip_addr"
        /\ ~svc.resolved[i].set
        /\ svc.resolved[i].given.variant = "Scheme"
        /\ svc.resolved[i].scheme.proxy_scheme = None
        /\ svc.resolved[i].scheme.addresses = <<None, None>>
        /\ ClientLevel(svc.resolved[i].uri).proxy_scheme = "px-all"
        /\ ClientLevel(svc.resolved[i].uri).addresses = <<"10.0.0.1", None>>

(***************************************************************************)
(* The flag proxies_maybe_http_auth of the published states.               *)
(***************************************************************************)
ProxyLists ==
    {<<>>, <<ProxyHttpsAuth>>, <<ProxyAll, ProxyAllAuth>>}

\* Clients built with a proxy list, then given other lists or none by
\* updates that may overlap, with requests executed in between.
InitProxyFlag ==
    /\ scenario = "proxy_flag"
    /\ \E px \in ProxyLists :
          InitCommon(Built("p0", ProfileA, None, PolicyNone, FALSE, FALSE, px), Jars({}, {}))

NextProxyFlag ==
    \/ \E h \in DOMAIN handle : Update(h)
    \/ \E u \in DOMAIN upd, px \in ProxyLists \ {<<>>} : UpdateProxies(u, px)
    \/ \E u \in DOMAIN upd : UpdateUnsetProxies(u)
    \/ \E u \in DOMAIN upd : Apply(u)
    \/ RequestStep

SpecProxyFlag == InitProxyFlag /\ [][NextProxyFlag]_vars

\* The flag of a client state says whether some proxy of its list may carry
\* HTTP auth.
FlagMatchesList(client) ==
    client.proxies_maybe_http_auth <=>
        (\E i \in DOMAIN client.proxies : ProxyMaybeHasHttpAuth(client.proxies[i]))

\* C39: in every published client state, after build and after any applied
\* updates that used proxies() and unset_proxies(), and in the state every
\* request captured, the flag proxies_maybe_http_auth equals "some proxy of
\* the list may carry HTTP auth"; so a plain-http request whose first
\* matching proxy has credentials is sent with them, and the flag is false
\* for an empty list.
C39_FlagMatchesProxies ==
    /\ \A c \in DOMAIN cell :
          /\ FlagMatchesList(cell[c])
          /\ FlagMatchesList(published[c])
          /\ cell[c].proxies = <<>> => ~cell[c].proxies_maybe_http_auth
    /\ \A r \in DOMAIN req :
          req[r].sent >= 1 =>
             /\ FlagMatchesList(req[r].client)
             /\ LET first == FirstMatch(req[r].client.proxies, req[r].given.url, 1)
                IN (/\ req[r].given.url.scheme = "http"
                    /\ req[r].urls = <<>>
                    /\ first # 0
                    /\ req[r].client.proxies[first].auth) =>
                      req[r].in_flight.headers["proxy-authorization"] =
                         <<req[r].client.proxies[first].id>>

\* A list with credentials was published by one update and cleared by the
\* next; a request executed in between was sent with the credentials, and
\* the state now published has an empty list and a false flag.
C39_Witness ==
    /\ scenario = "proxy_flag"
    /\ \E u1, u2 \in DOMAIN upd, r \in DOMAIN req :
          /\ upd[u1].applied /\ upd[u2].applied
          /\ upd[u1].base.proxies = <<>> /\ ~upd[u1].base.proxies_maybe_http_auth
          /\ upd[u1].current.proxies = <<ProxyAll, ProxyAllAuth>>
          /\ upd[u1].current.proxies_maybe_http_auth
          /\ upd[u2].base = upd[u1].current
          /\ upd[u2].current.proxies = <<>>
          /\ req[r].client = upd[u1].current
          /\ req[r].given.url = UrlHttpA1
          /\ cell[upd[u2].cell].proxies = <<>>
          /\ ~cell[upd[u2].cell].proxies_maybe_http_auth
====
